---------------------------- MODULE Spec2Model ----------------------------
(***************************************************************************)
(* A model of the document state core of fuzzpaint-vk:                     *)
(*   - the point repository  (src/src/repositories/points.rs),             *)
(*   - the blend graph and its change tracker (src/src/graph.rs,           *)
(*     src/src/graph/rendering.rs),                                        *)
(*   - the stroke collection and its command application                   *)
(*     (src/src/state/stroke_collection.rs),                               *)
(*   - the render cache orchestrator (src/src/renderer.rs).                *)
(* Each component has its own specification (SpecRepo, SpecGraph,          *)
(* SpecStroke, SpecRender); the variables of the other components stay at  *)
(* their initial value under it.  The repository is modelled down to the   *)
(* acquisition and release of each of its locks; SpecRepoFair adds a fair  *)
(* scheduler, SpecScan follows inserts alone over more slabs.              *)
(***************************************************************************)
EXTENDS Integers, Sequences, FiniteSets, TLC

VARIABLES
    slabs,      \* PointRepository.slabs : Vec<PointSlab>
    allocs,     \* PointRepository.allocs : HashMap<PointCollectionID, PointCollectionAllocInfo>
    slabsLock,  \* state of the RwLock around `slabs`
    bumpLocks,  \* per slab, the holder of the Mutex around its bump_free_idx
    allocsLock, \* state of the RwLock around `allocs`
    nextId,     \* the id generator behind PointCollectionID::default()
    th,         \* per thread: the call it is in, its locals, its last return value
    returned,   \* history: the <<id, collection>> pairs insert has handed out, in order
    started,    \* history: number of insert calls begun with a collection that fits
    tree,       \* BlendGraph.tree : id_tree::Tree<NodeData>
    graphRes,   \* the last blend graph / change tracker call and its outcome
    strokes,        \* StrokeCollection.strokes : Vec<ImmutableStroke>
    strokes_active, \* StrokeCollection.strokes_active : BitVec
    nextStroke,     \* the id generator behind ImmutableStrokeID
    lastOk,         \* history: per stroke id, the direction of its last successful command
    strokeRes,      \* the last stroke collection call and its outcome
    live,       \* provider: the ids of the documents that exist
    docGraph,   \* provider: per document, the BlendGraph of its current state
    clock,      \* provider: number of edits and deletions so far (positions of the command logs)
    chan,       \* the worker's broadcast receiver: pending messages, lagged and closed flags
    worker,     \* render_worker: where it is, `changed`, the position and error of render's loop
    rendererData, \* Renderer.data : HashMap<DocumentID, PerDocumentData>
    nextImage,  \* the next image uninit_render_data creates
    passes,     \* history: the render_one calls of the current render call, in order
    archRes,    \* the last PointArchetype call and its outcome
    current_hotkeys, \* WinitKeyboardActionCollector.current_hotkeys : HashMap<KeyboardHotkey, usize>
    shadowing,  \* the hotkey bindings: the pairs <<a, b>> with a.shadows(b)
    hotkeyRes,  \* the last push_key / pop_key call and what it logged
    root,       \* the gizmo Collection the calls are made on
    gizmoRes    \* the last gizmo call and its outcome

repoVars   == <<slabs, allocs, slabsLock, bumpLocks, allocsLock, nextId, th, returned, started>>
graphVars  == <<tree, graphRes>>
strokeVars == <<strokes, strokes_active, nextStroke, lastOk, strokeRes>>
renderVars == <<live, docGraph, clock, chan, worker, rendererData, nextImage, passes>>
archVars   == <<archRes>>
hotkeyVars == <<current_hotkeys, shadowing, hotkeyRes>>
gizmoVars  == <<root, gizmoRes>>
vars       == <<repoVars, graphVars, strokeVars, renderVars, archVars, hotkeyVars, gizmoVars>>

-----------------------------------------------------------------------------
(* Bounds of the model *)

\* SLAB_SIZE stands for `const SLAB_SIZE: usize = 1024 * 1024` (points.rs:264),
\* scaled down so that full slabs, exact fits and oversized collections all occur.
SLAB_SIZE == 3
\* Total number of insert calls (with a collection that fits) the threads make.
MaxInserts == 2
\* The same, where the threads only insert and the choice between several slabs
\* with room is followed.
MaxScanInserts == 3
\* Point values are told apart by their `dist` field, 1..MaxDist; 0 is zeroed memory.
MaxDist == 2

Threads == {"t1", "t2"}

\* Largest number of nodes and leaves below the root of a blend graph.
MaxNodes == 3
\* The lengths of the batches of changes given to dirtied_by.
BatchLengths == 0..2

\* Largest number of strokes pushed to the stroke collection.
MaxStrokes == 2
\* The brush settings and the point collection ids strokes and commands carry.
Brushes == {"brushA", "brushB"}
PointCollectionIds == {"pointsA", "pointsB"}

\* The numbers of nodes and leaves below the root of the graph of a document
\* whose cache is followed through its reconciliations.
ReconcileNodeCounts == 0..2
\* The documents of the provider.
Docs == {"d1", "d2"}
\* The numbers of nodes and leaves below the root of a document's graph, and
\* their types: one that has an image and one that has none.
DocNodeCounts == 0..1
DocNodeTypes == {"StrokeLayer", "Passthrough"}
\* Largest number of edits and deletions of documents.
MaxEvents == 3
\* Capacity of the change notification channel (tokio::sync::broadcast).
ChanCap == 1
\* Number of images the image backend can create before it is exhausted.
MaxImages == 4

\* Largest number of collections nested inside one another below the root
\* collection of gizmos.
MaxNesting == 1
\* The numbers of children of a collection of gizmos.
ChildCounts == 0..2
\* The click points: inside the rectangle, inside the ring, outside both.
ClickPoints == { <<1, 1>>, <<3, 0>>, <<5, 5>> }

-----------------------------------------------------------------------------
(* Generic helpers *)

NoneV == [some |-> FALSE, val |-> 0]
Some(x) == [some |-> TRUE, val |-> x]


-----------------------------------------------------------------------------
(* Point archetypes: points.rs, bitflags PointArchetype *)

POSITION   == 1
ARC_LENGTH == 2
PRESSURE   == 4
TILT       == 8
TWO_FIELDS == 9
DISTANCE   == 16
ROLL       == 32
WHEEL      == 64
UNASSIGNED == 128

\* u8::count_ones
RECURSIVE CountOnes(_)
CountOnes(bits) == IF bits = 0 THEN 0 ELSE (bits % 2) + CountOnes(bits \div 2)

\* bitwise & and | of two u8 values
RECURSIVE BitAnd(_, _)
BitAnd(a, b) ==
    IF a = 0 \/ b = 0 THEN 0
    ELSE (IF a % 2 = 1 /\ b % 2 = 1 THEN 1 ELSE 0) + 2 * BitAnd(a \div 2, b \div 2)

RECURSIVE BitOr(_, _)
BitOr(a, b) ==
    IF a = 0 /\ b = 0 THEN 0
    ELSE (IF a % 2 = 1 \/ b % 2 = 1 THEN 1 ELSE 0) + 2 * BitOr(a \div 2, b \div 2)

\* Mutant of len: the fields of two elements are counted once.
ArchetypeLen_NoDouble(bits) == CountOnes(bits)

\* PointArchetype::len : every field is one element, the TWO_FIELDS ones are counted again
ArchetypeLen(bits) == CountOnes(bits) + CountOnes(BitAnd(bits, TWO_FIELDS))

\* size_of::<f32>()
F32_SIZE == 4

\* PointArchetype::len_bytes
ArchetypeLenBytes(bits) == ArchetypeLen(bits) * F32_SIZE

\* The archetype every crate::StrokePoint slice is summarised with
StrokePointArchetype == BitOr(BitOr(POSITION, ARC_LENGTH), PRESSURE)

\* size_of::<crate::StrokePoint>() : the f32 fields its archetype names
StrokePointSize == ArchetypeLenBytes(StrokePointArchetype)

-----------------------------------------------------------------------------
(* Points, collections and summaries *)

\* A crate::StrokePoint, known by its `dist` field.
StrokePoint(d) == [dist |-> d]
\* What alloc_zeroed leaves in a fresh slab.
ZeroPoint == StrokePoint(0)

\* The collections the threads insert: one of every length 0..SLAB_SIZE+1, with
\* contents that differ from element to element and from collection to collection.
Collections ==
    { [i \in 1..n |-> StrokePoint(((n + i) % MaxDist) + 1)] : n \in 0..(SLAB_SIZE + 1) }

\* impl From<&[StrokePoint]> for CollectionSummary
SummaryFrom(collection) ==
    [ archetype  |-> StrokePointArchetype,
      len        |-> Len(collection),
      arc_length |-> Some(IF Len(collection) = 0 THEN 0
                          ELSE collection[Len(collection)].dist) ]

\* PointCollectionAllocInfo
AllocInfo(slab_id, start, collection) ==
    [slab_id |-> slab_id, start |-> start, summary |-> SummaryFrom(collection)]

-----------------------------------------------------------------------------
(* PointSlab.  Indices are 0-based as in the code; points[i + 1] is the     *)
(* point at index i.                                                       *)

\* PointSlab::new
NewSlab == [points |-> [i \in 1..SLAB_SIZE |-> ZeroPoint], bump_free_idx |-> 0]

\* Mutant of try_bump_write: returns the index after the written range.
TryBumpWrite_ReturnsNewIdx(slab, data) ==
    IF Len(data) <= SLAB_SIZE
    THEN LET old_idx == slab.bump_free_idx
             new_idx == old_idx + Len(data)
         IN  IF new_idx > SLAB_SIZE
             THEN [res |-> NoneV, slab |-> slab]
             ELSE [res  |-> Some(new_idx),
                   slab |-> [points |-> [i \in 1..SLAB_SIZE |->
                                            IF i > old_idx /\ i <= new_idx
                                            THEN data[i - old_idx]
                                            ELSE slab.points[i]],
                             bump_free_idx |-> new_idx]]
    ELSE [res |-> NoneV, slab |-> slab]

\* Mutant of try_bump_write: writes the points but leaves the bump index where it was.
TryBumpWrite_NoAdvance(slab, data) ==
    IF Len(data) <= SLAB_SIZE
    THEN LET old_idx == slab.bump_free_idx
             new_idx == old_idx + Len(data)
         IN  IF new_idx > SLAB_SIZE
             THEN [res |-> NoneV, slab |-> slab]
             ELSE [res  |-> Some(old_idx),
                   slab |-> [points |-> [i \in 1..SLAB_SIZE |->
                                            IF i > old_idx /\ i <= new_idx
                                            THEN data[i - old_idx]
                                            ELSE slab.points[i]],
                             bump_free_idx |-> old_idx]]
    ELSE [res |-> NoneV, slab |-> slab]

\* Mutant of try_bump_write: the bump index stops one short of the written range.
TryBumpWrite_ShortAdvance(slab, data) ==
    IF Len(data) <= SLAB_SIZE
    THEN LET old_idx == slab.bump_free_idx
             new_idx == old_idx + Len(data)
         IN  IF new_idx > SLAB_SIZE
             THEN [res |-> NoneV, slab |-> slab]
             ELSE [res  |-> Some(old_idx),
                   slab |-> [points |-> [i \in 1..SLAB_SIZE |->
                                            IF i > old_idx /\ i <= new_idx
                                            THEN data[i - old_idx]
                                            ELSE slab.points[i]],
                             bump_free_idx |-> IF new_idx > old_idx + 1
                                               THEN new_idx - 1 ELSE new_idx]]
    ELSE [res |-> NoneV, slab |-> slab]

\* Mutant of try_bump_write: the range is reserved without the test against
\* SLAB_SIZE, and as much of the data as the slab has room for is copied.
TryBumpWrite_NoBoundCheck(slab, data) ==
    IF Len(data) <= SLAB_SIZE
    THEN LET old_idx == slab.bump_free_idx
             new_idx == old_idx + Len(data)
         IN  [res  |-> Some(old_idx),
              slab |-> [points |-> [i \in 1..SLAB_SIZE |->
                                       IF i > old_idx /\ i <= new_idx
                                       THEN data[i - old_idx]
                                       ELSE slab.points[i]],
                        bump_free_idx |-> new_idx]]
    ELSE [res |-> NoneV, slab |-> slab]

\* PointSlab::try_bump_write, the whole critical section under bump_free_idx's
\* mutex: the result and the slab afterwards.
TryBumpWrite(slab, data) ==
    IF Len(data) <= SLAB_SIZE
    THEN LET old_idx == slab.bump_free_idx
             new_idx == old_idx + Len(data)
         IN  IF new_idx > SLAB_SIZE
             THEN [res |-> NoneV, slab |-> slab]
             ELSE [res  |-> Some(old_idx),
                   slab |-> [points |-> [i \in 1..SLAB_SIZE |->
                                            IF i > old_idx /\ i <= new_idx
                                            THEN data[i - old_idx]
                                            ELSE slab.points[i]],
                             bump_free_idx |-> new_idx]]
    ELSE [res |-> NoneV, slab |-> slab]

\* PointSlab::try_read : the slice as (start, len), or None
TryRead(slab, start, len) ==
    IF start + len <= slab.bump_free_idx
    THEN Some([start |-> start, len |-> len])
    ELSE NoneV

\* PointSlab::usage
Usage(slab) == slab.bump_free_idx

\* The points a slice refers to, read from the slab's memory now.
SliceOf(slab, start, len) == [i \in 1..len |-> slab.points[start + i]]

-----------------------------------------------------------------------------
(* PointRepository: state of a thread                                      *)

\* A return value: what the call gave back (kind) and its payload.
Ret(kind, val) == [kind |-> kind, val |-> val]
\* The payload of a return value that carries nothing (None, an error, a panic).
NoVal == [nothing |-> TRUE]
\* The payload of Some(id): the handle insert returns.
Handle(id) == [id |-> id]
NoRet == Ret("-", NoVal)

\* A thread outside any call, with the return value of its last call.
Idle(ret) ==
    [pc |-> "idle", op |-> "-", collection |-> <<>>, id |-> 0, idx |-> 0,
     slab_id |-> 0, start |-> 0, len |-> 0, acc |-> 0, ret |-> ret]

\* PointRepository::new, and no thread in a call
RepoInit ==
    /\ slabs = <<>>
    /\ allocs = <<>>
    /\ slabsLock = [upgradable |-> "-", writer |-> "-", readers |-> {}]
    /\ bumpLocks = <<>>
    /\ allocsLock = [upgradable |-> "-", writer |-> "-", readers |-> {}]
    /\ nextId = 1
    /\ th = [t \in Threads |-> Idle(NoRet)]
    /\ returned = <<>>
    /\ started = 0

\* An id insert never hands out within the bounds.
UnknownId == MaxInserts + 1

\* The ids a caller may pass to summary_of / try_get: the handles insert has
\* returned so far, and one that insert never returns.
HandleIds == (DOMAIN allocs) \cup {UnknownId}

\* crate::FuzzID::default() : a fresh id, different from every earlier one
FuzzIDDefault == nextId

\* HashMap::insert
MapInsert(map, key, value) ==
    [k \in (DOMAIN map) \cup {key} |-> IF k = key THEN value ELSE map[k]]

-----------------------------------------------------------------------------
(* The locks of the repository (parking_lot).  An RwLock is known by the   *)
(* thread holding its upgradable read, the thread that has set its writer  *)
(* bit (it holds the lock exclusively once the readers have left) and the  *)
(* threads holding a shared read; a Mutex by the thread holding it.        *)

\* RwLock::read : granted unless the writer bit is set
CanRead(lock) == lock.writer = "-"

\* RwLock::upgradable_read : one upgradable reader, and no writer bit
CanUpgradableRead(lock) == lock.writer = "-" /\ lock.upgradable = "-"

\* RwLock::write, first half: the writer bit is set as soon as no other writer
\* or upgradable reader holds the lock; new readers are held off from then on
CanSetWriter(lock) == lock.writer = "-" /\ lock.upgradable = "-"

\* RwLock::write and RwLockUpgradableReadGuard::upgrade, second half: the
\* writer waits for the readers that are in to leave
ReadersGone(lock) == lock.readers = {}

\* Mutex::lock
CanLock(mutex) == mutex = "-"

AcquireRead(lock, t) == [lock EXCEPT !.readers = @ \cup {t}]

\* Mutant of the release of a shared read: the guard is leaked.
ReleaseRead_Leaks(lock, t) == lock

\* Drop of a read guard
ReleaseRead(lock, t) == [lock EXCEPT !.readers = @ \ {t}]

-----------------------------------------------------------------------------
(* PointRepository::insert                                                 *)

\* Mutant of the size check: the boundary length is refused.
InsertFits_Strict(collection) == Len(collection) < SLAB_SIZE

\* Mutant of the size check: one point too many is let through.
InsertFits_OffByOne(collection) == Len(collection) <= SLAB_SIZE + 1

\* The size check that opens insert (points.rs:164)
InsertFits(collection) == Len(collection) <= SLAB_SIZE

\* insert is called; an oversized collection returns None at once.  The
\* callers make at most max_inserts calls with a collection that fits.
InsertCallUpTo(t, collection, max_inserts) ==
    /\ th[t].pc = "idle"
    /\ IF InsertFits(collection)
       THEN /\ started < max_inserts
            /\ started' = started + 1
            /\ th' = [th EXCEPT ![t] = [Idle(NoRet) EXCEPT
                        !.pc = "ins_lock", !.op = "insert", !.collection = collection]]
       ELSE /\ started' = started
            /\ th' = [th EXCEPT ![t] = [Idle(Ret("None", NoVal)) EXCEPT
                        !.pc = "idle", !.op = "insert", !.collection = collection]]
    /\ UNCHANGED <<slabs, allocs, slabsLock, bumpLocks, allocsLock, nextId, returned>>
    /\ UNCHANGED <<graphVars, strokeVars, renderVars, archVars, hotkeyVars, gizmoVars>>

InsertCall(t, collection) == InsertCallUpTo(t, collection, MaxInserts)

\* self.slabs.upgradable_read() : one upgradable reader at a time
InsertLock(t) ==
    /\ th[t].pc = "ins_lock"
    /\ CanUpgradableRead(slabsLock)
    /\ slabsLock' = [slabsLock EXCEPT !.upgradable = t]
    /\ th' = [th EXCEPT ![t].pc = "ins_scan", ![t].idx = 0]
    /\ UNCHANGED <<slabs, allocs, bumpLocks, allocsLock, nextId, returned, started>>
    /\ UNCHANGED <<graphVars, strokeVars, renderVars, archVars, hotkeyVars, gizmoVars>>

\* Mutant of the scan: the slabs are tried from the last to the first.
ScanOrder_Reversed(num_slabs, idx) == num_slabs - 1 - idx

\* The slab the find_map over slab_reads.iter().enumerate() tries in its
\* iteration number idx: the slabs are tried by rising index
ScanOrder(num_slabs, idx) == idx

\* One iteration of the find_map over the slabs begins: try_bump_write on the
\* next slab locks its bump_free_idx.  Past the last slab the else branch is
\* taken with the upgradable lock still held.
InsertScan(t) ==
    /\ th[t].pc = "ins_scan"
    /\ IF th[t].idx >= Len(slabs)
       THEN /\ th' = [th EXCEPT ![t].pc = "ins_new"]
            /\ UNCHANGED bumpLocks
       ELSE LET slab_id == ScanOrder(Len(slabs), th[t].idx)
            IN  /\ CanLock(bumpLocks[slab_id + 1])
                /\ bumpLocks' = [bumpLocks EXCEPT ![slab_id + 1] = t]
                /\ th' = [th EXCEPT ![t].pc = "ins_bump", ![t].slab_id = slab_id]
    /\ UNCHANGED <<slabs, allocs, slabsLock, allocsLock, nextId, returned, started>>
    /\ UNCHANGED <<graphVars, strokeVars, renderVars, archVars, hotkeyVars, gizmoVars>>

\* The critical section of try_bump_write on the slab, and the unlock.  On
\* success find_map ends and the upgradable lock is dropped; otherwise the scan
\* goes on with the next slab.
InsertBump(t) ==
    /\ th[t].pc = "ins_bump"
    /\ LET w == TryBumpWrite(slabs[th[t].slab_id + 1], th[t].collection)
       IN  /\ slabs' = [slabs EXCEPT ![th[t].slab_id + 1] = w.slab]
           /\ bumpLocks' = [bumpLocks EXCEPT ![th[t].slab_id + 1] = "-"]
           /\ IF w.res.some
              THEN /\ slabsLock' = [slabsLock EXCEPT !.upgradable = "-"]
                   /\ th' = [th EXCEPT ![t].pc = "ins_alloc", ![t].start = w.res.val]
              ELSE /\ th' = [th EXCEPT ![t].pc = "ins_scan", ![t].idx = th[t].idx + 1,
                                       ![t].slab_id = 0]
                   /\ UNCHANGED slabsLock
    /\ UNCHANGED <<allocs, allocsLock, nextId, returned, started>>
    /\ UNCHANGED <<graphVars, strokeVars, renderVars, archVars, hotkeyVars, gizmoVars>>

\* No slab had room: PointSlab::new(), try_bump_write(collection).unwrap() into
\* it (the slab is still local: its mutex is free), then the upgrade of the
\* lock begins: the writer bit is set.  unwrap panics on None; the guard is
\* dropped while unwinding.
InsertNewSlab(t) ==
    /\ th[t].pc = "ins_new"
    /\ LET w == TryBumpWrite(NewSlab, th[t].collection)
       IN  IF ~ w.res.some
           THEN /\ th' = [th EXCEPT ![t] = [Idle(Ret("Panic", NoVal)) EXCEPT
                            !.pc = "panicked", !.op = "insert",
                            !.collection = th[t].collection]]
                /\ slabsLock' = [slabsLock EXCEPT !.upgradable = "-"]
           ELSE /\ slabsLock' = [slabsLock EXCEPT !.upgradable = "-", !.writer = t]
                /\ th' = [th EXCEPT ![t].pc = "ins_push", ![t].start = w.res.val]
    /\ UNCHANGED <<slabs, allocs, bumpLocks, allocsLock, nextId, returned, started>>
    /\ UNCHANGED <<graphVars, strokeVars, renderVars, archVars, hotkeyVars, gizmoVars>>

\* Mutant of the index of the pushed slab: the length of the list is taken.
PushedIndex_Len(num_slabs) == num_slabs

\* write.len() - 1 : the index of the slab just pushed
PushedIndex(num_slabs) == num_slabs - 1

\* The upgrade completes once the readers have left: write.push(new_slab),
\* write.len() - 1, and the write guard is dropped.  The pushed slab is the
\* local one InsertNewSlab wrote the collection into.
InsertPush(t) ==
    /\ th[t].pc = "ins_push"
    /\ ReadersGone(slabsLock)
    /\ slabs' = Append(slabs, TryBumpWrite(NewSlab, th[t].collection).slab)
    /\ bumpLocks' = Append(bumpLocks, "-")
    /\ slabsLock' = [slabsLock EXCEPT !.writer = "-"]
    /\ th' = [th EXCEPT ![t].pc = "ins_alloc", ![t].slab_id = PushedIndex(Len(slabs'))]
    /\ UNCHANGED <<allocs, allocsLock, nextId, returned, started>>
    /\ UNCHANGED <<graphVars, strokeVars, renderVars, archVars, hotkeyVars, gizmoVars>>

\* PointCollectionID::default(), then self.allocs.write() sets the writer bit
InsertAllocLock(t) ==
    /\ th[t].pc = "ins_alloc"
    /\ CanSetWriter(allocsLock)
    /\ allocsLock' = [allocsLock EXCEPT !.writer = t]
    /\ nextId' = nextId + 1
    /\ th' = [th EXCEPT ![t].pc = "ins_record", ![t].id = FuzzIDDefault]
    /\ UNCHANGED <<slabs, allocs, slabsLock, bumpLocks, returned, started>>
    /\ UNCHANGED <<graphVars, strokeVars, renderVars, archVars, hotkeyVars, gizmoVars>>

\* Once the readers of allocs have left: insert(id, info), the write guard is
\* dropped, Some(id)
InsertAlloc(t) ==
    /\ th[t].pc = "ins_record"
    /\ ReadersGone(allocsLock)
    /\ LET id   == th[t].id
           info == AllocInfo(th[t].slab_id, th[t].start, th[t].collection)
       IN  /\ allocs' = MapInsert(allocs, id, info)
           /\ returned' = Append(returned, [id |-> id, collection |-> th[t].collection])
           /\ th' = [th EXCEPT ![t] = [Idle(Ret("Some", Handle(id))) EXCEPT
                        !.op = "insert", !.collection = th[t].collection]]
    /\ allocsLock' = [allocsLock EXCEPT !.writer = "-"]
    /\ UNCHANGED <<slabs, slabsLock, bumpLocks, nextId, started>>
    /\ UNCHANGED <<graphVars, strokeVars, renderVars, archVars, hotkeyVars, gizmoVars>>

-----------------------------------------------------------------------------
(* PointRepository::summary_of, try_get, resident_usage                    *)

\* summary_of: self.allocs.read().get(&id).map(|info| info.summary)
SummaryOf(id) ==
    IF id \in DOMAIN allocs THEN Ret("Some", allocs[id].summary) ELSE Ret("None", NoVal)

\* summary_of is called: self.allocs.read()
SummaryOfCall(t, id) ==
    /\ th[t].pc = "idle"
    /\ CanRead(allocsLock)
    /\ allocsLock' = AcquireRead(allocsLock, t)
    /\ th' = [th EXCEPT ![t] = [Idle(NoRet) EXCEPT
                !.pc = "sum_read", !.op = "summary_of", !.id = id]]
    /\ UNCHANGED <<slabs, allocs, slabsLock, bumpLocks, nextId, returned, started>>
    /\ UNCHANGED <<graphVars, strokeVars, renderVars, archVars, hotkeyVars, gizmoVars>>

\* .get(&id).map(|info| info.summary), and the read guard is dropped
SummaryOfRead(t) ==
    /\ th[t].pc = "sum_read"
    /\ allocsLock' = ReleaseRead(allocsLock, t)
    /\ th' = [th EXCEPT ![t] = [Idle(SummaryOf(th[t].id)) EXCEPT
                !.op = "summary_of", !.id = th[t].id]]
    /\ UNCHANGED <<slabs, allocs, slabsLock, bumpLocks, nextId, returned, started>>
    /\ UNCHANGED <<graphVars, strokeVars, renderVars, archVars, hotkeyVars, gizmoVars>>

\* Mutant of the lookup: an unknown id gets a default (empty) allocation record.
TryGetLookup_OrDefault(id) ==
    IF id \in DOMAIN allocs THEN Some(allocs[id]) ELSE Some(AllocInfo(0, 0, <<>>))

\* try_get, first statement: look the id up in allocs and clone the record;
\* an unknown id returns NotFound.
TryGetLookup(id) ==
    IF id \in DOMAIN allocs THEN Some(allocs[id]) ELSE NoneV

\* try_get is called: self.allocs.read()
TryGetCall(t, id) ==
    /\ th[t].pc = "idle"
    /\ CanRead(allocsLock)
    /\ allocsLock' = AcquireRead(allocsLock, t)
    /\ th' = [th EXCEPT ![t] = [Idle(NoRet) EXCEPT
                !.pc = "get_alloc", !.op = "try_get", !.id = id]]
    /\ UNCHANGED <<slabs, allocs, slabsLock, bumpLocks, nextId, returned, started>>
    /\ UNCHANGED <<graphVars, strokeVars, renderVars, archVars, hotkeyVars, gizmoVars>>

\* .get(&id).ok_or(NotFound)?.clone() : the read guard of allocs is a temporary
\* of the statement and is dropped with it, also on the early return
TryGetAlloc(t) ==
    /\ th[t].pc = "get_alloc"
    /\ allocsLock' = ReleaseRead(allocsLock, t)
    /\ LET alloc == TryGetLookup(th[t].id)
       IN  IF alloc.some
           THEN th' = [th EXCEPT ![t].pc = "get_lock",
                                 ![t].slab_id = alloc.val.slab_id,
                                 ![t].start = alloc.val.start,
                                 ![t].len = alloc.val.summary.len]
           ELSE th' = [th EXCEPT ![t] = [Idle(Ret("NotFound", NoVal)) EXCEPT
                        !.op = "try_get", !.id = th[t].id]]
    /\ UNCHANGED <<slabs, allocs, slabsLock, bumpLocks, nextId, returned, started>>
    /\ UNCHANGED <<graphVars, strokeVars, renderVars, archVars, hotkeyVars, gizmoVars>>

\* self.slabs.read()
TryGetLock(t) ==
    /\ th[t].pc = "get_lock"
    /\ CanRead(slabsLock)
    /\ slabsLock' = AcquireRead(slabsLock, t)
    /\ th' = [th EXCEPT ![t].pc = "get_read"]
    /\ UNCHANGED <<slabs, allocs, bumpLocks, allocsLock, nextId, returned, started>>
    /\ UNCHANGED <<graphVars, strokeVars, renderVars, archVars, hotkeyVars, gizmoVars>>

\* Mutant of try_get: a range in a slab that has filled up has been moved out
\* of memory.
TryGetResult_Evicting(slab_id, start, len, debug_assertions) ==
    IF slab_id >= Len(slabs)
    THEN Ret("NotFound", NoVal)
    ELSE IF slabs[slab_id + 1].bump_free_idx = SLAB_SIZE
    THEN Ret("NotResident", NoVal)
    ELSE LET slice == TryRead(slabs[slab_id + 1], start, len)
         IN  IF slice.some
             THEN Ret("Ok", [slab_id |-> slab_id, start |-> slice.val.start,
                             len |-> slice.val.len])
             ELSE Ret("NotFound", NoVal)

\* try_get under the read lock of slabs: slabs.get(slab_id), the debug_assert
\* on the range (compiled in only when debug_assertions is set), try_read.
\* An Ok value is the slice: which slab, where it starts, how long it is.
TryGetResult(slab_id, start, len, debug_assertions) ==
    IF slab_id >= Len(slabs)
    THEN Ret("NotFound", NoVal)
    ELSE IF debug_assertions /\ ~ (start + len <= SLAB_SIZE)
    THEN Ret("Panic", NoVal)
    ELSE LET slice == TryRead(slabs[slab_id + 1], start, len)
         IN  IF slice.some
             THEN Ret("Ok", [slab_id |-> slab_id, start |-> slice.val.start,
                             len |-> slice.val.len])
             ELSE Ret("NotFound", NoVal)

\* slabs_read.get(alloc.slab_id) and the debug_assert; when both pass,
\* try_read locks the slab's bump_free_idx.  The early return and the panic
\* drop the read guard of slabs.
TryGetRead(t) ==
    /\ th[t].pc = "get_read"
    /\ \E debug_assertions \in BOOLEAN :
         LET r == TryGetResult(th[t].slab_id, th[t].start, th[t].len, debug_assertions)
         IN  IF th[t].slab_id >= Len(slabs) \/ r.kind = "Panic"
             THEN /\ th' = [th EXCEPT ![t] = [Idle(r) EXCEPT
                              !.pc = IF r.kind = "Panic" THEN "panicked" ELSE "idle",
                              !.op = "try_get", !.id = th[t].id]]
                  /\ slabsLock' = ReleaseRead(slabsLock, t)
                  /\ UNCHANGED bumpLocks
             ELSE /\ CanLock(bumpLocks[th[t].slab_id + 1])
                  /\ bumpLocks' = [bumpLocks EXCEPT ![th[t].slab_id + 1] = t]
                  /\ th' = [th EXCEPT ![t].pc = "get_bump"]
                  /\ UNCHANGED slabsLock
    /\ UNCHANGED <<slabs, allocs, allocsLock, nextId, returned, started>>
    /\ UNCHANGED <<graphVars, strokeVars, renderVars, archVars, hotkeyVars, gizmoVars>>

\* The comparison of try_read against the bump index, the unlock, and the
\* return of try_get, which drops the read guard of slabs.
TryGetBump(t) ==
    /\ th[t].pc = "get_bump"
    /\ LET r == TryGetResult(th[t].slab_id, th[t].start, th[t].len, FALSE)
       IN  th' = [th EXCEPT ![t] = [Idle(r) EXCEPT !.op = "try_get", !.id = th[t].id]]
    /\ bumpLocks' = [bumpLocks EXCEPT ![th[t].slab_id + 1] = "-"]
    /\ slabsLock' = ReleaseRead(slabsLock, t)
    /\ UNCHANGED <<slabs, allocs, allocsLock, nextId, returned, started>>
    /\ UNCHANGED <<graphVars, strokeVars, renderVars, archVars, hotkeyVars, gizmoVars>>

\* The points behind a PointCollectionReadLock, as its holder reads them now.
Deref(read_lock) ==
    SliceOf(slabs[read_lock.slab_id + 1], read_lock.start, read_lock.len)

\* resident_usage is called: self.slabs.read()
ResidentUsageCall(t) ==
    /\ th[t].pc = "idle"
    /\ CanRead(slabsLock)
    /\ slabsLock' = AcquireRead(slabsLock, t)
    /\ th' = [th EXCEPT ![t] = [Idle(NoRet) EXCEPT
                !.pc = "ru_sum", !.op = "resident_usage"]]
    /\ UNCHANGED <<slabs, allocs, bumpLocks, allocsLock, nextId, returned, started>>
    /\ UNCHANGED <<graphVars, strokeVars, renderVars, archVars, hotkeyVars, gizmoVars>>

\* (usage, capacity) in bytes from the summed slab usages and the slab count
UsageResult(acc, num_slabs) ==
    Ret("Usage", [usage    |-> acc * StrokePointSize,
                  capacity |-> num_slabs * SLAB_SIZE * StrokePointSize])

\* The fold over the slabs: slab.usage() locks the next slab's bump_free_idx;
\* after the last slab the pair is returned and the read lock released.
ResidentUsageStep(t) ==
    /\ th[t].pc = "ru_sum"
    /\ IF th[t].idx < Len(slabs)
       THEN /\ CanLock(bumpLocks[th[t].idx + 1])
            /\ bumpLocks' = [bumpLocks EXCEPT ![th[t].idx + 1] = t]
            /\ th' = [th EXCEPT ![t].pc = "ru_usage"]
            /\ UNCHANGED slabsLock
       ELSE /\ th' = [th EXCEPT ![t] = [Idle(UsageResult(th[t].acc, Len(slabs))) EXCEPT
                        !.op = "resident_usage"]]
            /\ slabsLock' = ReleaseRead(slabsLock, t)
            /\ UNCHANGED bumpLocks
    /\ UNCHANGED <<slabs, allocs, allocsLock, nextId, returned, started>>
    /\ UNCHANGED <<graphVars, strokeVars, renderVars, archVars, hotkeyVars, gizmoVars>>

\* slab.usage() reads the bump index and unlocks
ResidentUsageRead(t) ==
    /\ th[t].pc = "ru_usage"
    /\ th' = [th EXCEPT ![t].pc = "ru_sum",
                        ![t].acc = th[t].acc + Usage(slabs[th[t].idx + 1]),
                        ![t].idx = th[t].idx + 1]
    /\ bumpLocks' = [bumpLocks EXCEPT ![th[t].idx + 1] = "-"]
    /\ UNCHANGED <<slabs, allocs, slabsLock, allocsLock, nextId, returned, started>>
    /\ UNCHANGED <<graphVars, strokeVars, renderVars, archVars, hotkeyVars, gizmoVars>>

\* resident_usage of the repository as it stands
ResidentUsage ==
    LET RECURSIVE Sum(_)
        Sum(n) == IF n = 0 THEN 0 ELSE Sum(n - 1) + Usage(slabs[n])
    IN  UsageResult(Sum(Len(slabs)), Len(slabs)).val

-----------------------------------------------------------------------------
(* The point repository used by several threads                            *)

RepoNext ==
    \E t \in Threads :
        \/ \E collection \in Collections : InsertCall(t, collection)
        \/ InsertLock(t)
        \/ InsertScan(t)
        \/ InsertBump(t)
        \/ InsertNewSlab(t)
        \/ InsertPush(t)
        \/ InsertAllocLock(t)
        \/ InsertAlloc(t)
        \/ \E id \in HandleIds : SummaryOfCall(t, id)
        \/ SummaryOfRead(t)
        \/ \E id \in HandleIds : TryGetCall(t, id)
        \/ TryGetAlloc(t)
        \/ TryGetLock(t)
        \/ TryGetRead(t)
        \/ TryGetBump(t)
        \/ ResidentUsageCall(t)
        \/ ResidentUsageStep(t)
        \/ ResidentUsageRead(t)

\* A step of thread t inside the call it is in: everything but the calls.
Continue(t) ==
    \/ InsertLock(t)
    \/ InsertScan(t)
    \/ InsertBump(t)
    \/ InsertNewSlab(t)
    \/ InsertPush(t)
    \/ InsertAllocLock(t)
    \/ InsertAlloc(t)
    \/ SummaryOfRead(t)
    \/ TryGetAlloc(t)
    \/ TryGetLock(t)
    \/ TryGetRead(t)
    \/ TryGetBump(t)
    \/ ResidentUsageStep(t)
    \/ ResidentUsageRead(t)

\* The scheduler runs every thread that can run, and the locks of parking_lot
\* are fair: a thread that finds the lock it waits for free again and again
\* gets it.
RepoFairness == \A t \in Threads : SF_vars(Continue(t))

GraphIdle ==
    /\ tree = <<>>
    /\ graphRes = [op |-> "-", args |-> <<>>, kind |-> "-", val |-> {}]

\* The outcome of a stroke collection call: which call, its arguments, what it gave.
StrokeCall(op, dir, target, brush, points, kind) ==
    [op |-> op, dir |-> dir, target |-> target, brush |-> brush, points |-> points,
     kind |-> kind, yielded |-> <<>>]
NoStrokeCall == StrokeCall("-", "-", 0, "-", "-", "-")

\* An empty StrokeCollection
StrokeIdle ==
    /\ strokes = <<>>
    /\ strokes_active = <<>>
    /\ nextStroke = 1
    /\ lastOk = <<>>
    /\ strokeRes = NoStrokeCall

\* No provider, no render worker
RenderIdle ==
    /\ live = {}
    /\ docGraph = <<>>
    /\ clock = 0
    /\ chan = [queue |-> <<>>, lagged |-> FALSE, closed |-> FALSE]
    /\ worker = [pc |-> "-", changed |-> <<>>, i |-> 0, err |-> "-", ctx |-> "-"]
    /\ rendererData = <<>>
    /\ nextImage = 1
    /\ passes = <<>>

\* No PointArchetype call was made
NoArchetypeCall == [op |-> "-", bits |-> 0, val |-> 0]
ArchetypeIdle == archRes = NoArchetypeCall

\* No key bindings, no key events
NoHotkeyCall == [op |-> "-", key |-> "-", underflow |-> FALSE]
HotkeyIdle ==
    /\ current_hotkeys = <<>>
    /\ shadowing = {}
    /\ hotkeyRes = NoHotkeyCall

\* No gizmos
NoGizmoCall ==
    [op |-> "-", point |-> <<>>, stop_at |-> 0, log |-> <<>>,
     result |-> NoneV, found |-> NoneV]
GizmoIdle ==
    /\ root = [kind |-> "Collection", children |-> <<>>]
    /\ gizmoRes = NoGizmoCall

InitRepo == RepoInit /\ GraphIdle /\ StrokeIdle /\ RenderIdle
                /\ ArchetypeIdle /\ HotkeyIdle /\ GizmoIdle

SpecRepo == InitRepo /\ [][RepoNext]_vars

\* The threads only insert, MaxScanInserts times between them.
ScanNext ==
    \E t \in Threads :
        \/ \E collection \in Collections : InsertCallUpTo(t, collection, MaxScanInserts)
        \/ InsertLock(t)
        \/ InsertScan(t)
        \/ InsertBump(t)
        \/ InsertNewSlab(t)
        \/ InsertPush(t)
        \/ InsertAllocLock(t)
        \/ InsertAlloc(t)

SpecScan == InitRepo /\ [][ScanNext]_vars

\* The threads under a fair scheduler; between them they make as many inserts
\* as there are threads, and any number of the other calls.
FairNext ==
    \E t \in Threads :
        \/ \E collection \in Collections :
               InsertCallUpTo(t, collection, Cardinality(Threads))
        \/ \E id \in HandleIds : SummaryOfCall(t, id)
        \/ \E id \in HandleIds : TryGetCall(t, id)
        \/ ResidentUsageCall(t)
        \/ Continue(t)

SpecRepoFair == InitRepo /\ [][FairNext]_vars /\ RepoFairness

-----------------------------------------------------------------------------
(* Properties of the point repository                                      *)

\* The ids insert has returned so far.
ReturnedIds == { returned[i].id : i \in 1..Len(returned) }

\* The collection insert was given when it returned `id`.
InsertedUnder(id) ==
    returned[CHOOSE i \in 1..Len(returned) : returned[i].id = id].collection

\* try_get of `id` run to its end on the repository as it stands.
TryGetNow(id) ==
    LET alloc == TryGetLookup(id)
    IN  IF alloc.some
        THEN TryGetResult(alloc.val.slab_id, alloc.val.start, alloc.val.summary.len, TRUE)
        ELSE Ret("NotFound", NoVal)

\* Thread t takes the step: something of its call state changes.  (A call that
\* returns at once what the thread's last call returned changes nothing at all.)
Steps(t) ==
    \/ th'[t].pc # th[t].pc
    \/ th'[t].op # th[t].op
    \/ th'[t].collection # th[t].collection
    \/ th'[t].id # th[t].id
    \/ th'[t].idx # th[t].idx
    \/ th'[t].ret.kind # th[t].ret.kind

\* A thread whose last call was `op` and has returned.
Returned(t, op) == th[t].op = op /\ th[t].pc = "idle"

\* C1: every insert of a collection of at most SLAB_SIZE points (the boundary
\* included) returns a handle and never panics, and from then on summary_of that
\* handle is present and reports the length of the collection.
C1_InsertThenSummary ==
    /\ \A t \in Threads :
         th[t].op = "insert" /\ Len(th[t].collection) <= SLAB_SIZE =>
            /\ th[t].pc # "panicked"
            /\ th[t].pc = "idle" =>
                 /\ th[t].ret.kind = "Some"
                 /\ SummaryOf(th[t].ret.val.id).kind = "Some"
                 /\ SummaryOf(th[t].ret.val.id).val.len = Len(th[t].collection)
    /\ \A i \in 1..Len(returned) :
         /\ SummaryOf(returned[i].id).kind = "Some"
         /\ SummaryOf(returned[i].id).val.len = Len(returned[i].collection)

\* An insert of exactly SLAB_SIZE points has returned its handle, and a thread
\* has asked for its summary.
C1_Witness ==
    \E t, u \in Threads :
        /\ Returned(t, "insert") /\ Len(th[t].collection) = SLAB_SIZE
        /\ th[t].ret.kind = "Some"
        /\ Returned(u, "summary_of") /\ th[u].id = th[t].ret.val.id
        /\ th[u].ret.kind = "Some" /\ th[u].ret.val.len = SLAB_SIZE

\* C2: try_get of a handle insert returned succeeds, and the points behind the
\* read lock it gives are element for element the inserted collection, in every
\* later state, whatever is inserted afterwards.
C2_RoundTrip ==
    \A t \in Threads :
        Returned(t, "try_get") /\ th[t].id \in ReturnedIds =>
            /\ th[t].ret.kind = "Ok"
            /\ Deref(th[t].ret.val) = InsertedUnder(th[t].id)

\* A read lock on the first collection (not empty, not alone in its slab) is
\* held after all MaxInserts inserts have returned.
C2_Witness ==
    \E t \in Threads :
        /\ Returned(t, "try_get") /\ th[t].ret.kind = "Ok"
        /\ Len(returned) = MaxInserts
        /\ th[t].id = returned[1].id
        /\ th[t].ret.val.len > 0
        /\ slabs[th[t].ret.val.slab_id + 1].bump_free_idx > th[t].ret.val.len

\* C3: an insert of more than SLAB_SIZE points returns None in the step that
\* calls it, and that step changes no slab, no bump index, no allocation record,
\* no lock and not resident_usage().
C3_OversizedRejected ==
    [][\A t \in Threads :
          ( /\ th[t].pc = "idle"
            /\ Steps(t)
            /\ th'[t].op = "insert"
            /\ Len(th'[t].collection) > SLAB_SIZE )
          => /\ th'[t].pc = "idle"
             /\ th'[t].ret.kind = "None"
             /\ slabs' = slabs
             /\ allocs' = allocs
             /\ slabsLock' = slabsLock
             /\ nextId' = nextId
             /\ ResidentUsage' = ResidentUsage]_vars

\* An oversized insert has returned None on a repository that holds data.
C3_Witness ==
    \E t \in Threads :
        /\ Returned(t, "insert") /\ Len(th[t].collection) > SLAB_SIZE
        /\ th[t].ret.kind = "None"
        /\ ResidentUsage.usage > 0

\* The threads inside insert, past the size check.
Inserting ==
    { t \in Threads : th[t].pc \in {"ins_lock", "ins_scan", "ins_bump", "ins_new",
                                     "ins_push", "ins_alloc", "ins_record"} }

\* C4: under every interleaving of the threads' inserts, every insert that has
\* returned got a handle of its own, none is lost, and try_get of each handle
\* gives exactly the collection inserted under it, also while other inserts
\* are under way.
C4_ConcurrentInserts ==
    /\ \A i, j \in 1..Len(returned) : i # j => returned[i].id # returned[j].id
    /\ Len(returned) + Cardinality(Inserting) = started
    /\ DOMAIN allocs = ReturnedIds
    /\ \A i \in 1..Len(returned) :
         LET r == TryGetNow(returned[i].id)
         IN  /\ r.kind = "Ok"
             /\ Deref(r.val) = returned[i].collection

\* Two threads have both written into the same slab and neither has recorded
\* its allocation yet.
C4_Witness ==
    \E t, u \in Threads :
        /\ t # u
        /\ th[t].pc = "ins_alloc" /\ th[u].pc = "ins_alloc"
        /\ th[t].slab_id = th[u].slab_id
        /\ Len(th[t].collection) > 0 /\ Len(th[u].collection) > 0

\* C5: summary_of and try_get of an id that insert has not returned give None
\* and NotFound as soon as they have looked the id up, without a panic, and
\* change nothing of the repository: neither the call nor the lookup touches a
\* slab, an allocation record, the id generator or the lock of the slabs.
C5_UnknownHandle ==
    [][\A t \in Threads :
          ( /\ Steps(t)
            /\ th'[t].op \in {"summary_of", "try_get"}
            /\ th'[t].id \notin DOMAIN allocs )
          => /\ th[t].pc \in {"sum_read", "get_alloc"} =>
                  /\ th'[t].pc = "idle"
                  /\ th'[t].op = "summary_of" => th'[t].ret.kind = "None"
                  /\ th'[t].op = "try_get" => th'[t].ret.kind = "NotFound"
             /\ th[t].pc = "idle" => th'[t].pc \in {"sum_read", "get_alloc"}
             /\ UNCHANGED <<slabs, allocs, slabsLock, bumpLocks, nextId>>]_vars

\* Both calls have returned for the unknown id on a repository that holds data.
C5_Witness ==
    \E t, u \in Threads :
        /\ Returned(t, "summary_of") /\ th[t].id = UnknownId /\ th[t].ret.kind = "None"
        /\ Returned(u, "try_get") /\ th[u].id = UnknownId /\ th[u].ret.kind = "NotFound"
        /\ Len(returned) > 0

-----------------------------------------------------------------------------
(* BlendGraph: graph.rs.  The tree is an id_tree::Tree<NodeData>: a table   *)
(* from node id to the node's data (ty), its parent and its ordered         *)
(* children.  The root has id RootId and no parent.                         *)

RootId == 0
NoParent == -1

\* NodeDataTy: Root | Node(NodeType) | Leaf(LeafType)
RootTy    == [tag |-> "Root", ty |-> "Root"]
NodeTypes == { [tag |-> "Node", ty |-> n] : n \in {"Passthrough", "GroupedBlend"} }
LeafTypes == { [tag |-> "Leaf", ty |-> l] : l \in {"StrokeLayer", "SolidColor", "Note"} }

\* AnyID: Leaf(LeafID) | Node(NodeID), both wrapping an id_tree::NodeId
AnyID(tag, raw) == [tag |-> tag, raw |-> raw]
\* AnyID::into_raw
IntoRaw(any) == any.raw

\* The graphs the operations are applied to: the root and k <= MaxNodes nodes and
\* leaves with ids 1..k, each under the root or under an earlier NodeType node
\* (a child is added to a parent that exists); children are kept in id order.
ChildrenIn(parent, id) ==
    LET RECURSIVE Up(_)
        Up(n) == IF n = 0 THEN <<>>
                 ELSE IF parent[n] = id THEN Append(Up(n - 1), n) ELSE Up(n - 1)
    IN  Up(Len(parent))

MakeTree(parent, ty) ==
    [id \in 0..Len(parent) |->
        [ty       |-> IF id = RootId THEN RootTy ELSE ty[id],
         parent   |-> IF id = RootId THEN NoParent ELSE parent[id],
         children |-> ChildrenIn(parent, id)]]

Graphs ==
    UNION { { MakeTree(parent, ty) :
                <<parent, ty>> \in
                    { pt \in [1..k -> 0..MaxNodes] \X [1..k -> NodeTypes \cup LeafTypes] :
                        \A id \in 1..k :
                            /\ pt[1][id] < id
                            /\ pt[1][id] # RootId => pt[2][pt[1][id]].tag = "Node" } }
            : k \in 0..MaxNodes }

\* id_tree::Tree::get / is_valid_node_id : the id names a node of this tree
ValidId(tr, raw) == raw \in DOMAIN tr

\* id_tree::Tree::ancestor_ids : Err for an id not of this tree, else the ids
\* from the parent up to and including the root
AncestorIds(tr, raw) ==
    LET RECURSIVE Up(_)
        Up(n) == IF tr[n].parent = NoParent THEN <<>>
                 ELSE <<tr[n].parent>> \o Up(tr[n].parent)
    IN  IF ValidId(tr, raw) THEN [ok |-> TRUE, val |-> Up(raw)]
                            ELSE [ok |-> FALSE, val |-> <<>>]

\* The raw ids a caller can hold: those of the nodes and leaves below the root
\* (the root's id is never handed out) and one id the tree does not know.
CallerRawIds(tr) == ((DOMAIN tr) \ {RootId}) \cup {Cardinality(DOMAIN tr)}
CallerAnyIds(tr) == { AnyID(tag, raw) : tag \in {"Leaf", "Node"}, raw \in CallerRawIds(tr) }

\* Location: AboveSelection(AnyID) | IndexIntoNode(NodeID, usize) | IndexIntoRoot(usize)
Locations(tr) ==
    { [loc |-> "AboveSelection", any |-> a, index |-> 0] : a \in CallerAnyIds(tr) }
    \cup { [loc |-> "IndexIntoNode", any |-> AnyID("Node", raw), index |-> i] :
             raw \in CallerRawIds(tr), i \in 0..1 }
    \cup { [loc |-> "IndexIntoRoot", any |-> AnyID("Node", RootId), index |-> i] : i \in 0..1 }

\* The outcome of a blend graph call: which operation, its arguments, what it gave.
GraphCall(op, args, kind, val) == [op |-> op, args |-> args, kind |-> kind, val |-> val]
NoGraphCall == GraphCall("-", <<>>, "-", {})

\* todo!() : panics with "not yet implemented" before anything is touched
Todo(op, args) == GraphCall(op, args, "Panic", {})

\* BlendGraph::add_node
AddNode(location, node_ty) ==
    /\ graphRes.op = "-"
    /\ graphRes' = Todo("add_node", <<location, node_ty>>)
    /\ UNCHANGED tree
    /\ UNCHANGED <<repoVars, strokeVars, renderVars, archVars, hotkeyVars, gizmoVars>>

\* BlendGraph::add_leaf
AddLeaf(location, leaf_ty) ==
    /\ graphRes.op = "-"
    /\ graphRes' = Todo("add_leaf", <<location, leaf_ty>>)
    /\ UNCHANGED tree
    /\ UNCHANGED <<repoVars, strokeVars, renderVars, archVars, hotkeyVars, gizmoVars>>

\* BlendGraph::reparent
Reparent(target, destination) ==
    /\ graphRes.op = "-"
    /\ graphRes' = Todo("reparent", <<target, destination>>)
    /\ UNCHANGED tree
    /\ UNCHANGED <<repoVars, strokeVars, renderVars, archVars, hotkeyVars, gizmoVars>>

\* BlendGraph::blend_of
BlendOf(target) ==
    /\ graphRes.op = "-"
    /\ graphRes' = Todo("blend_of", <<target>>)
    /\ UNCHANGED tree
    /\ UNCHANGED <<repoVars, strokeVars, renderVars, archVars, hotkeyVars, gizmoVars>>

\* The crate::Blend stored in a variant of the given type
BlendIn(ty) == [blend_of |-> ty]

\* LeafType::blend
LeafTypeBlend(leaf) ==
    IF leaf = "StrokeLayer" THEN Some(BlendIn(leaf))
    ELSE IF leaf = "SolidColor" THEN Some(BlendIn(leaf))
    ELSE NoneV

\* NodeType::blend
NodeTypeBlend(node) ==
    IF node = "Passthrough" THEN NoneV ELSE Some(BlendIn(node))

\* NodeDataTy::blend
NodeDataTyBlend(data_ty) ==
    IF data_ty.tag = "Node" THEN NodeTypeBlend(data_ty.ty)
    ELSE IF data_ty.tag = "Leaf" THEN LeafTypeBlend(data_ty.ty)
    ELSE NoneV

-----------------------------------------------------------------------------
(* Change tracker: graph/rendering.rs                                      *)

\* Changes: BlendChanged(&AnyID) | LeafChanged(&LeafID), over the ids a caller holds
Changes(tr) ==
    { [kind |-> "BlendChanged", tag |-> a.tag, raw |-> a.raw] : a \in CallerAnyIds(tr) }
    \cup { [kind |-> "LeafChanged", tag |-> "Leaf", raw |-> raw] : raw \in CallerRawIds(tr) }

\* The batches of changes
Batches(tr) == UNION { [1..n -> Changes(tr)] : n \in BatchLengths }

\* Changes::any_id
ChangeAnyId(change) ==
    IF change.kind = "LeafChanged" THEN AnyID("Leaf", change.raw)
    ELSE AnyID(change.tag, change.raw)

\* Mutant of the match: an ancestor without a blend of its own (a Passthrough
\* group, a Note) holds no cache entry and is left out.
AncestorEntry_CachedOnly(tr, ancestor) ==
    IF ~ ValidId(tr, ancestor) THEN {}
    ELSE IF NodeDataTyBlend(tr[ancestor].ty) = NoneV THEN {}
    ELSE IF tr[ancestor].ty.tag = "Leaf" THEN {AnyID("Leaf", ancestor)}
    ELSE IF tr[ancestor].ty.tag = "Node" THEN {AnyID("Node", ancestor)}
    ELSE {}

\* The match on an ancestor's NodeDataTy: the id to insert, none for the root
AncestorEntry(tr, ancestor) ==
    IF ~ ValidId(tr, ancestor) THEN {}
    ELSE IF tr[ancestor].ty.tag = "Leaf" THEN {AnyID("Leaf", ancestor)}
    ELSE IF tr[ancestor].ty.tag = "Node" THEN {AnyID("Node", ancestor)}
    ELSE {}

\* Mutant of the loop body: only the parent is inserted, not the chain above it.
DirtyOne_ParentOnly(tr, dirtied, change) ==
    LET change_any_id == ChangeAnyId(change)
        ancestors     == AncestorIds(tr, IntoRaw(change_any_id))
    IN  IF ancestors.ok
        THEN dirtied \cup {change_any_id}
                     \cup UNION { AncestorEntry(tr, ancestors.val[i]) :
                                    i \in (DOMAIN ancestors.val) \cap {1} }
        ELSE dirtied

\* Mutant of the loop body: the changed id is inserted before it is looked up.
DirtyOne_InsertFirst(tr, dirtied, change) ==
    LET change_any_id == ChangeAnyId(change)
        ancestors     == AncestorIds(tr, IntoRaw(change_any_id))
    IN  IF ancestors.ok
        THEN dirtied \cup {change_any_id}
                     \cup UNION { AncestorEntry(tr, ancestors.val[i]) :
                                    i \in DOMAIN ancestors.val }
        ELSE dirtied \cup {change_any_id}

\* Mutant of the loop body: the set is started anew for every change.
DirtyOne_Overwrites(tr, dirtied, change) ==
    LET change_any_id == ChangeAnyId(change)
        ancestors     == AncestorIds(tr, IntoRaw(change_any_id))
    IN  IF ancestors.ok
        THEN {change_any_id}
                     \cup UNION { AncestorEntry(tr, ancestors.val[i]) :
                                    i \in DOMAIN ancestors.val }
        ELSE dirtied

\* One iteration of dirtied_by's loop over the changes
DirtyOne(tr, dirtied, change) ==
    LET change_any_id == ChangeAnyId(change)
        ancestors     == AncestorIds(tr, IntoRaw(change_any_id))
    IN  IF ancestors.ok
        THEN dirtied \cup {change_any_id}
                     \cup UNION { AncestorEntry(tr, ancestors.val[i]) :
                                    i \in DOMAIN ancestors.val }
        ELSE dirtied

\* dirtied_by(graph, changes)
DirtiedBy(tr, changes) ==
    LET RECURSIVE Loop(_)
        Loop(n) == IF n = 0 THEN {} ELSE DirtyOne(tr, Loop(n - 1), changes[n])
    IN  Loop(Len(changes))

DirtiedByCall(changes) ==
    /\ graphRes.op = "-"
    /\ graphRes' = GraphCall("dirtied_by", changes, "Set", DirtiedBy(tree, changes))
    /\ UNCHANGED tree
    /\ UNCHANGED <<repoVars, strokeVars, renderVars, archVars, hotkeyVars, gizmoVars>>

-----------------------------------------------------------------------------
(* The blend graph: one call on one graph                                  *)

RepoIdle ==
    /\ slabs = <<>>
    /\ allocs = <<>>
    /\ slabsLock = [upgradable |-> "-", writer |-> "-", readers |-> {}]
    /\ bumpLocks = <<>>
    /\ allocsLock = [upgradable |-> "-", writer |-> "-", readers |-> {}]
    /\ nextId = 1
    /\ th = <<>>
    /\ returned = <<>>
    /\ started = 0

InitGraph ==
    /\ tree \in Graphs
    /\ graphRes = NoGraphCall
    /\ RepoIdle /\ StrokeIdle /\ RenderIdle
    /\ ArchetypeIdle /\ HotkeyIdle /\ GizmoIdle

\* One call is made on each graph: the arguments to choose from while none was made.
Pending(arguments) == IF graphRes.op = "-" THEN arguments ELSE {}

GraphNext ==
    \/ \E location \in Pending(Locations(tree)), node_ty \in NodeTypes :
            AddNode(location, node_ty)
    \/ \E location \in Pending(Locations(tree)), leaf_ty \in LeafTypes :
            AddLeaf(location, leaf_ty)
    \/ \E target \in Pending(CallerAnyIds(tree)), destination \in Pending(Locations(tree)) :
            Reparent(target, destination)
    \/ \E changes \in Pending(Batches(tree)) : DirtiedByCall(changes)
    \/ \E target \in Pending(CallerAnyIds(tree)) : BlendOf(target)

SpecGraph == InitGraph /\ [][GraphNext]_vars

-----------------------------------------------------------------------------
(* Properties of the blend graph and the change tracker                    *)

\* The ids strictly below `raw`, found by walking the children lists down.
Descendants(tr, raw) ==
    LET RECURSIVE Down(_)
        Down(n) == UNION { {tr[n].children[i]} \cup Down(tr[n].children[i]) :
                             i \in DOMAIN tr[n].children }
    IN  Down(raw)

\* The ids strictly above `raw`, the root included.
Ancestors(tr, raw) == { a \in DOMAIN tr : raw \in Descendants(tr, a) }

\* No node is its own descendant.
Acyclic(tr) == \A n \in DOMAIN tr : n \notin Ancestors(tr, n)

\* The node a Location puts its subject under; NoParent when the location
\* names an id the tree does not know.
DestinationParent(tr, destination) ==
    IF destination.loc = "IndexIntoRoot" THEN RootId
    ELSE IF ~ ValidId(tr, destination.any.raw) THEN NoParent
    ELSE IF destination.loc = "IndexIntoNode" THEN destination.any.raw
    ELSE tr[destination.any.raw].parent

\* The destination lies under the target itself or under one of its descendants.
UnderTarget(tr, target, destination) ==
    /\ ValidId(tr, target.raw)
    /\ DestinationParent(tr, destination) \in {target.raw} \cup Descendants(tr, target.raw)

\* C6: a reparent whose destination lies under the target or under a descendant
\* of the target fails with WouldCycle and leaves the tree as it was, and the
\* tree stays acyclic.
C6_ReparentWouldCycle ==
    [][( /\ graphRes.op = "-"
         /\ graphRes'.op = "reparent"
         /\ UnderTarget(tree, graphRes'.args[1], graphRes'.args[2]) )
       => /\ graphRes'.kind = "WouldCycle"
          /\ tree' = tree
          /\ Acyclic(tree')]_vars

\* The changes of a batch whose id the tree knows.
KnownChange(change) == ValidId(tree, change.raw)

\* C7: for every change of the batch whose id exists in the graph, the result
\* holds that id and every ancestor of it below the root, each under the id
\* type of its node; the root is never in the result.
C7_DirtiedIncludesAncestors ==
    graphRes.op = "dirtied_by" =>
        /\ \A i \in DOMAIN graphRes.args :
             LET change == graphRes.args[i]
             IN  KnownChange(change) =>
                    /\ ChangeAnyId(change) \in graphRes.val
                    /\ \A a \in Ancestors(tree, change.raw) \ {RootId} :
                         AnyID(tree[a].ty.tag, a) \in graphRes.val
        /\ \A e \in graphRes.val : e.raw # RootId

\* The content of a SolidColor leaf changed that lies in a Passthrough group
\* inside a GroupedBlend group: leaf, inner group and outer group are dirtied.
C7_Witness ==
    /\ graphRes.op = "dirtied_by"
    /\ Len(graphRes.args) = 1
    /\ LET change == graphRes.args[1]
       IN  /\ change.kind = "LeafChanged"
           /\ KnownChange(change)
           /\ tree[change.raw].ty.ty = "SolidColor"
           /\ tree[change.raw].parent # RootId
           /\ tree[tree[change.raw].parent].ty.ty = "Passthrough"
           /\ tree[tree[change.raw].parent].parent # RootId
           /\ tree[tree[tree[change.raw].parent].parent].ty.ty = "GroupedBlend"
           /\ Cardinality(graphRes.val) = 3

\* C8: a change whose id the graph does not know is skipped: dirtied_by still
\* returns its set, no id of the set is unknown to the graph, and the set is
\* the one the batch gives without its unknown changes.
C8_UnknownSkipped ==
    graphRes.op = "dirtied_by" =>
        /\ graphRes.kind = "Set"
        /\ \A e \in graphRes.val : ValidId(tree, e.raw)
        /\ graphRes.val = DirtiedBy(tree, SelectSeq(graphRes.args, KnownChange))

\* A batch of an unknown id and the id of a leaf in a group: only the second
\* change contributes.
C8_Witness ==
    /\ graphRes.op = "dirtied_by"
    /\ Len(graphRes.args) = 2
    /\ ~ KnownChange(graphRes.args[1])
    /\ KnownChange(graphRes.args[2])
    /\ Cardinality(graphRes.val) = 2

-----------------------------------------------------------------------------
(* StrokeCollection and its commands: state/stroke_collection.rs           *)

\* ImmutableStroke
ImmutableStroke(id, brush, point_collection) ==
    [id |-> id, brush |-> brush, point_collection |-> point_collection]

\* The stroke ids a command may name: those pushed within the bounds and one
\* that is never pushed.
StrokeIds == 1..(MaxStrokes + 1)

\* A new ImmutableStrokeID (crate::FuzzID): different from every earlier one
NewStrokeId == nextStroke

\* StrokeCollection::push_back
PushBack(brush, point_collection) ==
    /\ Len(strokes) < MaxStrokes
    /\ LET stroke == ImmutableStroke(NewStrokeId, brush, point_collection)
       IN  /\ strokes' = Append(strokes, stroke)
           /\ strokes_active' = Append(strokes_active, TRUE)
           /\ nextStroke' = nextStroke + 1
           /\ lastOk' = MapInsert(lastOk, stroke.id, "-")
           /\ strokeRes' = StrokeCall("push_back", "-", stroke.id, brush,
                                      point_collection, "Ok")
    /\ UNCHANGED <<repoVars, graphVars, renderVars, archVars, hotkeyVars, gizmoVars>>

\* StrokeCollection::get_mut : the index of the first stroke with the id whose
\* activity bit exists, or None
GetMut(id) ==
    LET found == { i \in DOMAIN strokes : strokes[i].id = id }
    IN  IF found = {} THEN NoneV
        ELSE LET idx == CHOOSE i \in found : \A j \in found : i <= j
             IN  IF idx \in DOMAIN strokes_active THEN Some(idx) ELSE NoneV

\* Mutant of get: the stroke is returned whatever its activity flag.
GetIn_IgnoresActive(self_strokes, self_strokes_active, id) ==
    LET found == { i \in DOMAIN self_strokes : self_strokes[i].id = id }
    IN  IF found = {} THEN NoneV
        ELSE Some(self_strokes[CHOOSE i \in found : \A j \in found : i <= j])

\* StrokeCollection::get on a collection of the given strokes and flags: the
\* first stroke with the id, if its activity bit exists and is set
GetIn(self_strokes, self_strokes_active, id) ==
    LET found == { i \in DOMAIN self_strokes : self_strokes[i].id = id }
    IN  IF found = {} THEN NoneV
        ELSE LET idx == CHOOSE i \in found : \A j \in found : i <= j
             IN  IF idx \in DOMAIN self_strokes_active /\ self_strokes_active[idx]
                 THEN Some(self_strokes[idx])
                 ELSE NoneV

\* StrokeCollection::get
Get(id) == GetIn(strokes, strokes_active, id)

\* A call of get, its result recorded
GetCall(id) ==
    /\ LET r == Get(id)
       IN  strokeRes' = IF r.some
                        THEN StrokeCall("get", "-", id, r.val.brush,
                                        r.val.point_collection, "Some")
                        ELSE StrokeCall("get", "-", id, "-", "-", "None")
    /\ UNCHANGED <<strokes, strokes_active, nextStroke, lastOk>>
    /\ UNCHANGED <<repoVars, graphVars, renderVars, archVars, hotkeyVars, gizmoVars>>

\* bitvec's iter_ones : the indices of the set bits, ascending
IterOnes(bits) ==
    LET RECURSIVE From(_)
        From(i) == IF i > Len(bits) THEN <<>>
                   ELSE IF bits[i] THEN <<i>> \o From(i + 1) ELSE From(i + 1)
    IN  From(1)

\* slice::get : the element at the index, None out of bounds
SliceGet(slice, index) ==
    IF index \in DOMAIN slice THEN Some(slice[index]) ELSE NoneV

\* Iterator::map_while : the values of f up to the first None
MapWhile(items, f(_)) ==
    LET RECURSIVE From(_)
        From(i) == IF i > Len(items) THEN <<>>
                   ELSE IF f(items[i]).some THEN <<f(items[i]).val>> \o From(i + 1)
                   ELSE <<>>
    IN  From(1)

\* Mutant of iter_active: the strokes are enumerated whatever their flags.
IterActiveIn_All(self_strokes, self_strokes_active) == self_strokes

\* StrokeCollection::iter_active on a collection of the given strokes and flags
IterActiveIn(self_strokes, self_strokes_active) ==
    LET get(index) == SliceGet(self_strokes, index)
    IN  MapWhile(IterOnes(self_strokes_active), get)

\* StrokeCollection::iter_active
IterActive == IterActiveIn(strokes, strokes_active)

\* A call of iter_active, the strokes it yields recorded
IterActiveCall ==
    /\ strokeRes' = [StrokeCall("iter_active", "-", 0, "-", "-", "Iter")
                        EXCEPT !.yielded = IterActive]
    /\ UNCHANGED <<strokes, strokes_active, nextStroke, lastOk>>
    /\ UNCHANGED <<repoVars, graphVars, renderVars, archVars, hotkeyVars, gizmoVars>>

\* Mutant of NEW_ACTIVE: the Undo arm sets the flag like the Do arm.
NewActive_AlwaysTrue(dir) == TRUE

\* const NEW_ACTIVE of the two match arms: true for Do, false for Undo
NewActive(dir) == dir = "Do"

\* Mutant of apply: the activity flag is not compared with NEW_ACTIVE.
ApplyCreated_NoActiveCheck(dir, target, brush, points) ==
    LET found == GetMut(target)
    IN  IF ~ found.some
        THEN [kind |-> "UnknownResource", active |-> strokes_active]
        ELSE LET stroke == strokes[found.val]
             IN  IF \/ stroke.point_collection # points
                    \/ stroke.brush # brush
                 THEN [kind |-> "MismatchedState", active |-> strokes_active]
                 ELSE [kind   |-> "Ok",
                       active |-> [strokes_active EXCEPT ![found.val] = NewActive(dir)]]

\* Mutant of apply: the command's brush and points are not compared with the
\* stored stroke.
ApplyCreated_NoPayloadCheck(dir, target, brush, points) ==
    LET found == GetMut(target)
    IN  IF ~ found.some
        THEN [kind |-> "UnknownResource", active |-> strokes_active]
        ELSE LET active == strokes_active[found.val]
             IN  IF active = NewActive(dir)
                 THEN [kind |-> "MismatchedState", active |-> strokes_active]
                 ELSE [kind   |-> "Ok",
                       active |-> [strokes_active EXCEPT ![found.val] = NewActive(dir)]]

\* Mutant of apply: a success sets the flag of every stroke.
ApplyCreated_SetsAll(dir, target, brush, points) ==
    LET found == GetMut(target)
    IN  IF ~ found.some
        THEN [kind |-> "UnknownResource", active |-> strokes_active]
        ELSE LET stroke == strokes[found.val]
                 active == strokes_active[found.val]
             IN  IF \/ active = NewActive(dir)
                    \/ stroke.point_collection # points
                    \/ stroke.brush # brush
                 THEN [kind |-> "MismatchedState", active |-> strokes_active]
                 ELSE [kind   |-> "Ok",
                       active |-> [i \in DOMAIN strokes_active |-> NewActive(dir)]]

\* CommandConsumer::apply for DoUndo::Do / DoUndo::Undo of StrokeCommand::Created:
\* the result and the activity bits afterwards
ApplyCreated(dir, target, brush, points) ==
    LET found == GetMut(target)
    IN  IF ~ found.some
        THEN [kind |-> "UnknownResource", active |-> strokes_active]
        ELSE LET stroke == strokes[found.val]
                 active == strokes_active[found.val]
             IN  IF \/ active = NewActive(dir)
                    \/ stroke.point_collection # points
                    \/ stroke.brush # brush
                 THEN [kind |-> "MismatchedState", active |-> strokes_active]
                 ELSE [kind   |-> "Ok",
                       active |-> [strokes_active EXCEPT ![found.val] = NewActive(dir)]]

Apply(dir, target, brush, points) ==
    LET r == ApplyCreated(dir, target, brush, points)
    IN  /\ strokes_active' = r.active
        /\ strokeRes' = StrokeCall("apply", dir, target, brush, points, r.kind)
        /\ lastOk' = IF r.kind = "Ok" THEN [lastOk EXCEPT ![target] = dir] ELSE lastOk
        /\ UNCHANGED <<strokes, nextStroke>>
        /\ UNCHANGED <<repoVars, graphVars, renderVars, archVars, hotkeyVars, gizmoVars>>

-----------------------------------------------------------------------------
(* The stroke collection under a stream of commands                        *)

InitStroke == StrokeIdle /\ RepoIdle /\ GraphIdle /\ RenderIdle
                /\ ArchetypeIdle /\ HotkeyIdle /\ GizmoIdle

StrokeNext ==
    \/ \E brush \in Brushes, point_collection \in PointCollectionIds :
            PushBack(brush, point_collection)
    \/ \E dir \in {"Do", "Undo"}, target \in StrokeIds,
          brush \in Brushes, points \in PointCollectionIds :
            Apply(dir, target, brush, points)
    \/ \E id \in StrokeIds : GetCall(id)
    \/ IterActiveCall

SpecStroke == InitStroke /\ [][StrokeNext]_vars

-----------------------------------------------------------------------------
(* Properties of the stroke collection                                     *)

\* The step applies a command (a failed command that repeats the last call
\* changes nothing and is no step).
ApplyStep == strokeRes'.op = "apply"

\* C9: a Do(Created) on a stroke whose last successful command was a Do, and a
\* Do(Created) that repeats the call before it on a stroke of the collection,
\* fail with MismatchedState and leave every activity flag as it was.
C9_DoTwiceRejected ==
    [][( /\ ApplyStep
         /\ strokeRes'.dir = "Do"
         /\ \/ /\ strokeRes'.target \in DOMAIN lastOk
               /\ lastOk[strokeRes'.target] = "Do"
            \/ /\ strokeRes.op = "apply" /\ strokeRes.dir = "Do"
               /\ strokeRes.kind # "UnknownResource"
               /\ strokeRes'.target = strokeRes.target
               /\ strokeRes'.brush = strokeRes.brush
               /\ strokeRes'.points = strokeRes.points )
       => /\ strokeRes'.kind = "MismatchedState"
          /\ strokes_active' = strokes_active
          /\ lastOk' = lastOk]_vars

\* A Do was rejected on a stroke that an earlier Do had re-activated.
C9_Witness ==
    /\ strokeRes.op = "apply" /\ strokeRes.dir = "Do"
    /\ strokeRes.kind = "MismatchedState"
    /\ strokeRes.target \in DOMAIN lastOk
    /\ lastOk[strokeRes.target] = "Do"
    /\ strokes_active[GetMut(strokeRes.target).val]
    /\ strokes[GetMut(strokeRes.target).val].brush = strokeRes.brush
    /\ strokes[GetMut(strokeRes.target).val].point_collection = strokeRes.points

\* The flag of every stroke is the direction of its last successful command,
\* and true when none succeeded since push_back.
FlagFollowsLastOk ==
    \A i \in DOMAIN strokes :
        strokes_active[i] = (lastOk[strokes[i].id] # "Undo")

\* A command with the stroke's own payload succeeds exactly when it flips the
\* flag; a success sets the flag to its direction, differs in direction from the
\* success before it, and is an Undo when it is the first after push_back.
FlipsOrFails ==
    \A i \in DOMAIN strokes :
        ( /\ ApplyStep
          /\ strokeRes'.target = strokes[i].id
          /\ strokeRes'.brush = strokes[i].brush
          /\ strokeRes'.points = strokes[i].point_collection )
        => /\ strokeRes'.kind \in {"Ok", "MismatchedState"}
           /\ strokeRes'.kind = "Ok" <=>
                 \/ strokeRes'.dir = "Do" /\ ~ strokes_active[i]
                 \/ strokeRes'.dir = "Undo" /\ strokes_active[i]
           /\ strokeRes'.kind = "Ok" =>
                 /\ strokes_active'[i] = (strokeRes'.dir = "Do")
                 /\ strokeRes'.dir # lastOk[strokes[i].id]
                 /\ lastOk[strokes[i].id] = "-" => strokeRes'.dir = "Undo"
           /\ strokeRes'.kind # "Ok" => strokes_active' = strokes_active

\* C10: for Do/Undo Created commands with the stroke's payload, a command
\* succeeds if and only if it flips the activity flag, so successes alternate,
\* the first after push_back is an Undo, and the flag always is the direction of
\* the last success.
C10_LockstepAlternation == [] FlagFollowsLastOk /\ [][FlipsOrFails]_vars

\* A stroke went through push_back, Undo and Do, the Do being the last call.
C10_Witness ==
    /\ strokeRes.op = "apply" /\ strokeRes.dir = "Do" /\ strokeRes.kind = "Ok"
    /\ lastOk[strokeRes.target] = "Do"
    /\ strokes_active[GetMut(strokeRes.target).val]

\* The stroke of the collection with the id
StrokeOf(id) == strokes[CHOOSE i \in DOMAIN strokes : strokes[i].id = id]

\* push_back appends the stroke as the last one, active, and get finds it.
PushBackAppends ==
    strokeRes'.op = "push_back" /\ strokeRes' # strokeRes =>
        LET s == ImmutableStroke(strokeRes'.target, strokeRes'.brush, strokeRes'.points)
        IN  /\ strokes' = Append(strokes, s)
            /\ strokes_active' = Append(strokes_active, TRUE)
            /\ GetIn(strokes', strokes_active', s.id) = Some(s)

\* What get returned: nothing for an id never pushed and for a stroke whose last
\* successful command is an Undo, the stroke itself otherwise.
GetSeesActive ==
    strokeRes.op = "get" =>
        IF strokeRes.target \notin DOMAIN lastOk \/ lastOk[strokeRes.target] = "Undo"
        THEN strokeRes.kind = "None"
        ELSE /\ strokeRes.kind = "Some"
             /\ ImmutableStroke(strokeRes.target, strokeRes.brush, strokeRes.points)
                    = StrokeOf(strokeRes.target)

\* C11: push_back(s) appends s as the last stroke with its flag true, after
\* which get(s.id) returns s; get returns none for an id not in the collection
\* and for a stroke whose flag is false, and the stroke again once a Do has
\* re-activated it.
C11_PushBackThenGet == [] GetSeesActive /\ [][PushBackAppends]_vars

\* get returned a stroke that was undone and re-activated by a Do.
C11_Witness ==
    /\ strokeRes.op = "get" /\ strokeRes.kind = "Some"
    /\ lastOk[strokeRes.target] = "Do"

\* C20: blend_of(id) returns the assigned blend mode for Grouped Blend nodes,
\* Stroke Layer leaves and Solid Color leaves, none for Passthrough nodes and
\* Note leaves, and the target-not-found error for an id unknown to the graph.
C20_BlendOf ==
    graphRes.op = "blend_of" =>
        LET target == graphRes.args[1]
        IN  IF ~ ValidId(tree, target.raw)
            THEN graphRes.kind = "TargetNotFound"
            ELSE /\ graphRes.kind = "Ok"
                 /\ graphRes.val = NodeDataTyBlend(tree[target.raw].ty)
                 /\ graphRes.val.some <=>
                        tree[target.raw].ty.ty \in {"GroupedBlend", "StrokeLayer", "SolidColor"}

-----------------------------------------------------------------------------
(* Render cache orchestrator: renderer.rs.  The document provider            *)
(* (crate::default_provider), its command queues and their listeners are     *)
(* used by the renderer but defined outside it; the change notifier is a     *)
(* tokio::sync::broadcast receiver.                                          *)

\* The order document_iter gives the documents in
DocOrder == <<"d1", "d2">>

\* The graphs a document's state can hold
DocumentGraphs ==
    { g \in Graphs : /\ Cardinality(DOMAIN g) - 1 \in DocNodeCounts
                     /\ \A raw \in (DOMAIN g) \ {RootId} : g[raw].ty.ty \in DocNodeTypes }

\* default_provider().document_iter(): the ids of the documents that exist
DocumentIter == SelectSeq(DocOrder, LAMBDA d : d \in live)

\* An empty channel, as seen by a receiver that just subscribed
NewReceiver == [queue |-> <<>>, lagged |-> FALSE, closed |-> FALSE]

\* broadcast::Sender::send, seen from the receiver: the message is queued, and
\* when the channel is full the oldest message is lost to the receiver
Send(ch, id) ==
    IF Len(ch.queue) < ChanCap
    THEN [ch EXCEPT !.queue = Append(@, id)]
    ELSE [ch EXCEPT !.queue = Append(Tail(@), id), !.lagged = TRUE]

\* broadcast::Receiver::try_recv: Lagged once after messages were lost (the
\* receiver then continues at the oldest message kept), else the next
\* message, else Closed when the senders are gone, else Empty
TryRecv(ch) ==
    IF ch.lagged
    THEN [kind |-> "Lagged", id |-> "-", chan |-> [ch EXCEPT !.lagged = FALSE]]
    ELSE IF ch.queue # <<>>
    THEN [kind |-> "Ok", id |-> Head(ch.queue), chan |-> [ch EXCEPT !.queue = Tail(@)]]
    ELSE IF ch.closed
    THEN [kind |-> "Closed", id |-> "-", chan |-> ch]
    ELSE [kind |-> "Empty", id |-> "-", chan |-> ch]

\* broadcast::Receiver::resubscribe: a receiver that starts at the current tail
Resubscribe(ch) == [ch EXCEPT !.queue = <<>>, !.lagged = FALSE]

\* HashMap::remove
MapRemove(map, key) == [k \in (DOMAIN map) \ {key} |-> map[k]]

\* HashMap::retain by key
MapRetain(map, keep) == [k \in (DOMAIN map) \cap keep |-> map[k]]

\* The worker has subscribed to the notifications and has not ended: what the
\* provider does before and after is of no consequence for the worker.
WorkerRuns == worker.pc \in {"render", "recv", "drain", "retain"}

\* The provider's side: a document is edited (its graph changes), and the
\* change is notified
EditDocument(d, graph) ==
    /\ WorkerRuns
    /\ ~ chan.closed
    /\ clock < MaxEvents
    /\ d \in live
    /\ graph # docGraph[d]
    /\ docGraph' = [docGraph EXCEPT ![d] = graph]
    /\ clock' = clock + 1
    /\ chan' = Send(chan, d)
    /\ UNCHANGED <<live, worker, rendererData, nextImage, passes>>
    /\ UNCHANGED <<repoVars, graphVars, strokeVars, archVars, hotkeyVars, gizmoVars>>

\* The provider's side: a document is destroyed, and the change is notified
DeleteDocument(d) ==
    /\ WorkerRuns
    /\ ~ chan.closed
    /\ clock < MaxEvents
    /\ d \in live
    /\ live' = live \ {d}
    /\ docGraph' = MapRemove(docGraph, d)
    /\ clock' = clock + 1
    /\ chan' = Send(chan, d)
    /\ UNCHANGED <<worker, rendererData, nextImage, passes>>
    /\ UNCHANGED <<repoVars, graphVars, strokeVars, archVars, hotkeyVars, gizmoVars>>

\* The provider's side: the senders of the channel are dropped
CloseChannel ==
    /\ WorkerRuns
    /\ ~ chan.closed
    /\ chan' = [chan EXCEPT !.closed = TRUE]
    /\ UNCHANGED <<live, docGraph, clock, worker, rendererData, nextImage, passes>>
    /\ UNCHANGED <<repoVars, graphVars, strokeVars, archVars, hotkeyVars, gizmoVars>>

\* BlendGraph::iter: the nodes and leaves below the root with their ids
GraphIter(graph) ==
    { [id |-> AnyID(graph[raw].ty.tag, raw), node |-> graph[raw].ty] :
        raw \in (DOMAIN graph) \ {RootId} }

\* The match of allocate_prune_graph on (node.leaf(), node.node())
HasGraphics(node) ==
    IF node.tag = "Leaf" THEN node.ty \in {"SolidColor", "StrokeLayer"}
    ELSE IF node.tag = "Node" THEN node.ty = "GroupedBlend"
    ELSE FALSE

\* The ids allocate_prune_graph marks as needed
RetainData(graph) == { item.id : item \in { it \in GraphIter(graph) : HasGraphics(it.node) } }

\* Entry::Vacant(v) => v.insert(uninit_render_data()?) for the ids of
\* `allocated`, the images being created one after the other from `next` on
InsertImages(graph_render_data, allocated, next) ==
    LET RECURSIVE Ins(_, _, _)
        Ins(map, ids, n) ==
            IF ids = {} THEN map
            ELSE LET id == CHOOSE x \in ids : TRUE
                 IN  Ins(MapInsert(map, id, n), ids \ {id}, n + 1)
    IN  Ins(graph_render_data, allocated, next)

\* Mutant of allocate_prune_graph: the images no longer needed are kept.
AllocatePruneGraph_NoRetain(graph_render_data, graph, allocated, next) ==
    LET retain_data == RetainData(graph)
        vacant      == retain_data \ DOMAIN graph_render_data
        inserted    == InsertImages(graph_render_data, allocated, next)
    IN  IF allocated = vacant
        THEN [kind |-> "Ok", graph_render_data |-> inserted,
              next |-> next + Cardinality(allocated)]
        ELSE [kind |-> "Err", graph_render_data |-> inserted,
              next |-> next + Cardinality(allocated)]

\* Mutant of allocate_prune_graph: the ids that have an entry get a new image too.
AllocatePruneGraph_Replaces(graph_render_data, graph, allocated, next) ==
    LET retain_data == RetainData(graph)
        vacant      == retain_data \ DOMAIN graph_render_data
        occupied    == retain_data \cap DOMAIN graph_render_data
        inserted    == InsertImages(graph_render_data, allocated \cup occupied,
                                    next + Cardinality(occupied))
    IN  IF allocated = vacant
        THEN [kind |-> "Ok", graph_render_data |-> MapRetain(inserted, retain_data),
              next |-> next + Cardinality(allocated)]
        ELSE [kind |-> "Err", graph_render_data |-> inserted,
              next |-> next + Cardinality(allocated)]

\* Renderer::allocate_prune_graph. `allocated` are the vacant ids whose image
\* was created before uninit_render_data failed; the call fails unless these
\* are all the vacant ids, and then returns before the retain.
AllocatePruneGraph(graph_render_data, graph, allocated, next) ==
    LET retain_data == RetainData(graph)
        vacant      == retain_data \ DOMAIN graph_render_data
        inserted    == InsertImages(graph_render_data, allocated, next)
    IN  IF allocated = vacant
        THEN [kind |-> "Ok", graph_render_data |-> MapRetain(inserted, retain_data),
              next |-> next + Cardinality(allocated)]
        ELSE [kind |-> "Err", graph_render_data |-> inserted,
              next |-> next + Cardinality(allocated)]

\* Renderer::draw_from_scratch: the reconciliation, then todo!()
DrawFromScratch(document_data, graph, allocated, next) ==
    LET r == AllocatePruneGraph(document_data.graph_render_data, graph, allocated, next)
    IN  [kind  |-> IF r.kind = "Err" THEN "Err" ELSE "Panic",
         alloc |-> r.kind,
         document_data |-> [document_data EXCEPT !.graph_render_data = r.graph_render_data],
         next  |-> r.next]

\* Renderer::draw_incremental: draw_from_scratch, an error mapped to Anyhow
DrawIncremental(document_data, graph, allocated, next) ==
    LET r == DrawFromScratch(document_data, graph, allocated, next)
    IN  [r EXCEPT !.kind = IF r.kind = "Err" THEN "Anyhow" ELSE r.kind]

\* A render_one call as the history keeps it: the document, the is_new flag,
\* the cache keys before the call, the outcome of forward_clone_state, the
\* draw taken first, the outcome of the incremental attempt, whether a full
\* redraw was retried, the outcome of the last reconciliation, the result and
\* the error returned.
Pass(id, is_new, keys_before, fwd, path, inc, retried, alloc, result, error) ==
    [id |-> id, is_new |-> is_new, keys_before |-> keys_before, fwd |-> fwd,
     path |-> path, inc |-> inc, retried |-> retried, alloc |-> alloc,
     result |-> result, error |-> error]

\* Mutant of the match on the entry: the document is never taken as new.
IsNew_Never(vacant) == FALSE

\* Mutant of the match on the entry: the document is always taken as new.
IsNew_Always(vacant) == TRUE

\* The is_new flag of the match on self.data.entry(id)
IsNew(vacant) == vacant

\* Mutant of the error arm of forward_clone_state: the data is not removed.
ForwardFailed_Keeps(map, id) == map

\* The error arm of forward_clone_state: self.data.remove(&id)
ForwardFailed(map, id) == MapRemove(map, id)

\* Mutant of the match on draw_incremental's result: every error is retried.
RetryFromScratch_AnyError(inc) == inc \in {"StateMismatch", "Anyhow"}

\* The arm of the match on draw_incremental's result that draws from scratch
RetryFromScratch(inc) == inc = "StateMismatch"

\* DocumentCommandListener::forward_clone_state succeeds: the document exists
\* and its log could be followed
ForwardOk(id, fwd_ok) == id \in live /\ fwd_ok

\* queue.listen_from_now(): a listener at the current position of the log
ListenFromNow == clock

\* Renderer::render_one.  root_ok: uninit_render_data succeeds for the root
\* image; fwd_ok: the log can be followed; allocated: as in AllocatePruneGraph
\* (a retry after StateMismatch starts with a failing allocation).
RenderOne(id, root_ok, fwd_ok, allocated) ==
    LET vacant      == id \notin DOMAIN rendererData
        is_new      == IsNew(vacant)
        keys_before == IF vacant THEN {}
                       ELSE DOMAIN rendererData[id].graph_render_data
    IN  IF vacant /\ id \notin live
        THEN [data |-> rendererData, next |-> nextImage,
              pass |-> Pass(id, is_new, keys_before, "-", "-", "-", FALSE, "-",
                            "Err", "deleted")]
        ELSE IF vacant /\ ~ root_ok
        THEN [data |-> rendererData, next |-> nextImage,
              pass |-> Pass(id, is_new, keys_before, "-", "-", "-", FALSE, "-",
                            "Err", "image")]
        ELSE
        LET data1 == IF vacant
                     THEN MapInsert(rendererData, id,
                                    [listener          |-> ListenFromNow,
                                     graph_render_data |-> <<>>,
                                     root_image        |-> nextImage])
                     ELSE rendererData
            next1 == IF vacant THEN nextImage + 1 ELSE nextImage
        IN  IF ~ ForwardOk(id, fwd_ok)
            THEN [data |-> ForwardFailed(data1, id), next |-> next1,
                  pass |-> Pass(id, is_new, keys_before, "Err", "-", "-", FALSE, "-",
                                "Err", "listener")]
            ELSE
            LET data2   == [data1 EXCEPT ![id].listener = clock]
                changes == docGraph[id]
                first   == IF is_new
                           THEN DrawFromScratch(data2[id], changes, allocated, next1)
                           ELSE DrawIncremental(data2[id], changes, allocated, next1)
                retry   == ~ is_new /\ RetryFromScratch(first.kind)
                last    == IF retry
                           THEN DrawFromScratch(first.document_data, changes, {}, first.next)
                           ELSE first
                result  == IF last.kind = "Ok" THEN "Ok"
                           ELSE IF last.kind = "Panic" THEN "Panic" ELSE "Err"
            IN  [data |-> [data2 EXCEPT ![id] = last.document_data],
                 next |-> last.next,
                 pass |-> Pass(id, is_new, keys_before, "Ok",
                               IF is_new THEN "scratch" ELSE "incremental",
                               IF is_new THEN "-" ELSE first.kind,
                               retry, last.alloc, result,
                               IF result = "Err" THEN "draw" ELSE "-")]

\* The images uninit_render_data can still create for the root image
RootChoices == {FALSE} \cup (IF nextImage <= MaxImages THEN {TRUE} ELSE {})

\* The sets of vacant ids whose images can be created in render_one(id)
AllocChoices(id) ==
    IF id \notin live THEN {{}}
    ELSE LET vacant == id \notin DOMAIN rendererData
             keys   == IF vacant THEN {} ELSE DOMAIN rendererData[id].graph_render_data
             next1  == IF vacant THEN nextImage + 1 ELSE nextImage
         IN  { a \in SUBSET (RetainData(docGraph[id]) \ keys) :
                 next1 + Cardinality(a) - 1 <= MaxImages }

\* The choices of `allocated` for the render_one the worker is about to call
CurrentAllocChoices ==
    IF worker.pc = "render" /\ worker.i \in DOMAIN worker.changed
    THEN AllocChoices(worker.changed[worker.i])
    ELSE {}

\* Mutant of render's loop: the loop ends at the first error.
RenderContinues_UntilError(i, changes, err) == i <= Len(changes) /\ err = "-"

\* `for change in changes` of Renderer::render
RenderContinues(i, changes, err) == i <= Len(changes)

\* err.or(...) : the first error is kept
ErrOr(err, result) == IF err # "-" THEN err ELSE result

\* render_worker up to the first render: the notifier, the list of all
\* documents, Renderer::new (which can fail), then render(&changed)
WorkerStart(new_ok) ==
    /\ worker.pc = "start"
    /\ IF new_ok
       THEN worker' = [pc |-> "render", changed |-> DocumentIter, i |-> 1,
                       err |-> "-", ctx |-> "init"]
       ELSE worker' = [worker EXCEPT !.pc = "returned_err", !.err = "new"]
    /\ chan' = NewReceiver
    /\ passes' = <<>>
    /\ UNCHANGED <<live, docGraph, clock, rendererData, nextImage>>
    /\ UNCHANGED <<repoVars, graphVars, strokeVars, archVars, hotkeyVars, gizmoVars>>

\* One iteration of render's loop: render_one(changes[i])
WorkerRenderOne(root_ok, fwd_ok, allocated) ==
    /\ worker.pc = "render"
    /\ RenderContinues(worker.i, worker.changed, worker.err)
    /\ LET id == worker.changed[worker.i]
           r  == RenderOne(id, root_ok, fwd_ok, allocated)
       IN  /\ rendererData' = r.data
           /\ nextImage' = r.next
           /\ passes' = Append(passes, r.pass)
           /\ worker' = IF r.pass.result = "Panic"
                        THEN [worker EXCEPT !.pc = "panicked"]
                        ELSE [worker EXCEPT !.i = @ + 1,
                                            !.err = ErrOr(@, IF r.pass.result = "Err"
                                                             THEN r.pass.error ELSE "-")]
    /\ UNCHANGED <<live, docGraph, clock, chan>>
    /\ UNCHANGED <<repoVars, graphVars, strokeVars, archVars, hotkeyVars, gizmoVars>>

\* render returns: `let _ =` for the first render, `?` in the loop.  `changed`
\* is not read again before it is cleared, and is shown cleared from here on.
WorkerRenderReturn ==
    /\ worker.pc = "render"
    /\ ~ RenderContinues(worker.i, worker.changed, worker.err)
    /\ worker' = IF worker.ctx = "init" \/ worker.err = "-"
                 THEN [pc |-> "recv", changed |-> <<>>, i |-> 0, err |-> "-", ctx |-> "-"]
                 ELSE [worker EXCEPT !.pc = "returned_err", !.changed = <<>>, !.i = 0]
    /\ passes' = <<>>
    /\ UNCHANGED <<live, docGraph, clock, chan, rendererData, nextImage>>
    /\ UNCHANGED <<repoVars, graphVars, strokeVars, archVars, hotkeyVars, gizmoVars>>

\* change_notifier.recv().await gives Ok(msg)
WorkerRecvMsg ==
    /\ worker.pc = "recv"
    /\ TryRecv(chan).kind = "Ok"
    /\ chan' = TryRecv(chan).chan
    /\ worker' = [worker EXCEPT !.pc = "drain", !.changed = <<TryRecv(chan).id>>]
    /\ UNCHANGED <<live, docGraph, clock, rendererData, nextImage, passes>>
    /\ UNCHANGED <<repoVars, graphVars, strokeVars, archVars, hotkeyVars, gizmoVars>>

\* change_notifier.recv().await gives Err(Lagged): resubscribe, list all documents
WorkerRecvLagged ==
    /\ worker.pc = "recv"
    /\ TryRecv(chan).kind = "Lagged"
    /\ chan' = Resubscribe(TryRecv(chan).chan)
    /\ worker' = [worker EXCEPT !.pc = "retain", !.changed = DocumentIter,
                                !.ctx = "lagged"]
    /\ UNCHANGED <<live, docGraph, clock, rendererData, nextImage, passes>>
    /\ UNCHANGED <<repoVars, graphVars, strokeVars, archVars, hotkeyVars, gizmoVars>>

\* change_notifier.recv().await gives Err(Closed)
WorkerRecvClosed ==
    /\ worker.pc = "recv"
    /\ TryRecv(chan).kind = "Closed"
    /\ worker' = [worker EXCEPT !.pc = "returned_ok"]
    /\ UNCHANGED <<live, docGraph, clock, chan, rendererData, nextImage, passes>>
    /\ UNCHANGED <<repoVars, graphVars, strokeVars, archVars, hotkeyVars, gizmoVars>>

\* `while let Ok(msg) = change_notifier.try_recv()` : one more message
WorkerTryRecvMsg ==
    /\ worker.pc = "drain"
    /\ TryRecv(chan).kind = "Ok"
    /\ chan' = TryRecv(chan).chan
    /\ worker' = [worker EXCEPT !.changed = Append(@, TryRecv(chan).id)]
    /\ UNCHANGED <<live, docGraph, clock, rendererData, nextImage, passes>>
    /\ UNCHANGED <<repoVars, graphVars, strokeVars, archVars, hotkeyVars, gizmoVars>>

\* try_recv gives an error (Empty, Lagged or Closed): the while loop ends, the
\* worker yields and calls render(&changed)
WorkerTryRecvEnd ==
    /\ worker.pc = "drain"
    /\ TryRecv(chan).kind # "Ok"
    /\ chan' = TryRecv(chan).chan
    /\ worker' = [worker EXCEPT !.pc = "render", !.i = 1, !.err = "-", !.ctx = "msg"]
    /\ passes' = <<>>
    /\ UNCHANGED <<live, docGraph, clock, rendererData, nextImage>>
    /\ UNCHANGED <<repoVars, graphVars, strokeVars, archVars, hotkeyVars, gizmoVars>>

\* Renderer::render_retain: self.data.retain, then render(retain)
WorkerRenderRetain ==
    /\ worker.pc = "retain"
    /\ rendererData' = MapRetain(rendererData,
                                 { worker.changed[k] : k \in DOMAIN worker.changed })
    /\ worker' = [worker EXCEPT !.pc = "render", !.i = 1, !.err = "-"]
    /\ passes' = <<>>
    /\ UNCHANGED <<live, docGraph, clock, chan, nextImage>>
    /\ UNCHANGED <<repoVars, graphVars, strokeVars, archVars, hotkeyVars, gizmoVars>>

-----------------------------------------------------------------------------
(* The render worker next to a provider whose documents are edited and     *)
(* destroyed                                                               *)

InitRender ==
    /\ live = Docs
    /\ docGraph \in [live -> DocumentGraphs]
    /\ clock = 0
    /\ chan = NewReceiver
    /\ worker = [pc |-> "start", changed |-> <<>>, i |-> 0, err |-> "-", ctx |-> "-"]
    /\ rendererData = <<>>
    /\ nextImage = 1
    /\ passes = <<>>
    /\ RepoIdle /\ GraphIdle /\ StrokeIdle
    /\ ArchetypeIdle /\ HotkeyIdle /\ GizmoIdle

RenderNext ==
    \/ \E d \in Docs, graph \in DocumentGraphs : EditDocument(d, graph)
    \/ \E d \in Docs : DeleteDocument(d)
    \/ CloseChannel
    \/ \E new_ok \in BOOLEAN : WorkerStart(new_ok)
    \/ \E root_ok \in RootChoices, fwd_ok \in BOOLEAN, allocated \in CurrentAllocChoices :
            WorkerRenderOne(root_ok, fwd_ok, allocated)
    \/ WorkerRenderReturn
    \/ WorkerRecvMsg
    \/ WorkerRecvLagged
    \/ WorkerRecvClosed
    \/ WorkerTryRecvMsg
    \/ WorkerTryRecvEnd
    \/ WorkerRenderRetain

SpecRender == InitRender /\ [][RenderNext]_vars

-----------------------------------------------------------------------------
(* The render worker next to a provider with one document, whose graph is  *)
(* any graph of ReconcileNodeCounts nodes and leaves, of every type         *)

ReconcileGraphs == { g \in Graphs : Cardinality(DOMAIN g) - 1 \in ReconcileNodeCounts }

InitReconcile ==
    /\ live = {DocOrder[1]}
    /\ docGraph \in [live -> ReconcileGraphs]
    /\ clock = 0
    /\ chan = NewReceiver
    /\ worker = [pc |-> "start", changed |-> <<>>, i |-> 0, err |-> "-", ctx |-> "-"]
    /\ rendererData = <<>>
    /\ nextImage = 1
    /\ passes = <<>>
    /\ RepoIdle /\ GraphIdle /\ StrokeIdle
    /\ ArchetypeIdle /\ HotkeyIdle /\ GizmoIdle

ReconcileNext ==
    \/ \E d \in Docs, graph \in ReconcileGraphs : EditDocument(d, graph)
    \/ \E new_ok \in BOOLEAN : WorkerStart(new_ok)
    \/ \E root_ok \in RootChoices, fwd_ok \in BOOLEAN, allocated \in CurrentAllocChoices :
            WorkerRenderOne(root_ok, fwd_ok, allocated)
    \/ WorkerRenderReturn
    \/ WorkerRecvMsg
    \/ WorkerRecvLagged
    \/ WorkerTryRecvMsg
    \/ WorkerTryRecvEnd
    \/ WorkerRenderRetain

SpecReconcile == InitReconcile /\ [][ReconcileNext]_vars

-----------------------------------------------------------------------------
(* Properties of the render cache orchestrator                             *)

\* The step is a render_one call; LastPass is its record afterwards.
RenderOneStep == Len(passes') = Len(passes) + 1
LastPass == passes[Len(passes)]

\* The ids of a graph that are Stroke Layer leaves, Solid Color leaves or
\* Grouped Blend nodes
RequiresImage(graph) ==
    { AnyID("Leaf", raw) : raw \in { r \in DOMAIN graph :
            graph[r].ty \in { [tag |-> "Leaf", ty |-> "StrokeLayer"],
                              [tag |-> "Leaf", ty |-> "SolidColor"] } } }
    \cup { AnyID("Node", raw) : raw \in { r \in DOMAIN graph :
            graph[r].ty = [tag |-> "Node", ty |-> "GroupedBlend"] } }

\* C12: after a successful allocate_prune_graph against graph G the keys of
\* the document's cache map are exactly the ids of G that are Stroke Layer
\* leaves, Solid Color leaves or Grouped Blend nodes: missing entries are
\* allocated, entries of other ids and of ids no longer in G are removed.
C12_CacheKeysAfterReconcile ==
    [][( RenderOneStep /\ passes'[Len(passes')].alloc = "Ok" )
       => LET id == passes'[Len(passes')].id
          IN  /\ id \in DOMAIN rendererData'
              /\ DOMAIN rendererData'[id].graph_render_data = RequiresImage(docGraph[id])]_vars

\* A successful reconciliation removed the entry of an id that is no longer in
\* the graph and allocated an entry that was missing.
C12_Witness ==
    /\ passes # <<>>
    /\ LastPass.alloc = "Ok"
    /\ LET keys == DOMAIN rendererData[LastPass.id].graph_render_data
       IN  /\ \E k \in LastPass.keys_before : k.raw \notin DOMAIN docGraph[LastPass.id]
           /\ keys \ LastPass.keys_before # {}

\* C13: when forwarding the log subscription of a document fails, render_one
\* removes that document's whole tracked state from the renderer and returns
\* the error; the tracked state of every other document is unchanged.
C13_ForwardFailureDropsOne ==
    [][( RenderOneStep /\ passes'[Len(passes')].fwd = "Err" )
       => LET id == passes'[Len(passes')].id
          IN  /\ DOMAIN rendererData' = (DOMAIN rendererData) \ {id}
              /\ \A other \in DOMAIN rendererData' : rendererData'[other] = rendererData[other]
              /\ passes'[Len(passes')].result = "Err"
              /\ worker'.err # "-"]_vars

\* The subscription of a tracked document failed and its state is gone, while
\* another document is still tracked.
C13_Witness ==
    /\ passes # <<>>
    /\ LastPass.fwd = "Err" /\ ~ LastPass.is_new
    /\ LastPass.id \notin DOMAIN rendererData
    /\ DOMAIN rendererData # {}

\* The error of the first failed render_one of the history, "-" when none failed
FirstError(history) ==
    LET failed == SelectSeq(history, LAMBDA p : p.result = "Err")
    IN  IF failed = <<>> THEN "-" ELSE failed[1].error

\* While render runs, render_one was called for the ids of the list before the
\* current one, in order, and the error kept is that of the first that failed.
RenderInOrder ==
    worker.pc = "render" =>
        /\ Len(passes) = worker.i - 1
        /\ Len(passes) <= Len(worker.changed)
        /\ \A k \in DOMAIN passes : passes[k].id = worker.changed[k]
        /\ worker.err = FirstError(passes)

\* render returns only after render_one was called for every id of the list.
RenderReturnsAfterAll ==
    worker.pc = "render" /\ worker'.pc \notin {"render", "panicked"}
        => /\ Len(passes) = Len(worker.changed)
           /\ worker.err = FirstError(passes)
           /\ worker'.pc = "returned_err" => worker.err # "-"

C15_WorkerSurvivesErrors ==
    [][worker'.pc \in {"returned_ok", "returned_err"} /\ worker.pc # worker'.pc
          => \/ worker.pc = "recv" /\ TryRecv(chan).kind = "Closed"
             \/ worker.pc = "start"]_vars

\* C16: whenever the channel reports dropped notifications, on the blocking
\* receive or while pending notifications are drained with try_recv, the
\* worker resubscribes and lists all live documents; render_retain then evicts
\* every tracked document absent from the list and renders the listed ones.
C16_LaggedResyncs ==
    /\ [][( /\ worker.pc \in {"recv", "drain"}
            /\ TryRecv(chan).kind = "Lagged"
            /\ worker' # worker )
          => /\ worker'.pc = "retain"
             /\ worker'.changed = DocumentIter
             /\ chan' = Resubscribe(chan)]_vars
    /\ [][( worker.pc = "retain" /\ worker' # worker )
          => /\ worker'.pc = "render" /\ worker'.i = 1
             /\ DOMAIN rendererData' =
                    (DOMAIN rendererData) \cap { worker.changed[k] : k \in DOMAIN worker.changed }
             /\ worker'.changed = worker.changed]_vars

\* C17: notifications for the same document that are pending when the worker
\* collects its batch coalesce: the batch causes one render_one call for that
\* document.
C17_BatchCoalesces ==
    worker.ctx = "msg" =>
        \A j, k \in DOMAIN passes : j # k => passes[j].id # passes[k].id

-----------------------------------------------------------------------------
(* Properties of the point repository: residency, ranges, locks            *)

\* C21: whatever insert, summary_of, try_get and resident_usage calls the
\* threads make, no call returns NotResident, and try_get of any id, run on
\* the repository as it stands, does not give NotResident either.
C21_NeverNotResident ==
    /\ \A t \in Threads : th[t].ret.kind # "NotResident"
    /\ \A id \in HandleIds : TryGetNow(id).kind # "NotResident"

\* try_get has returned the points of a handle whose slab is full, after the
\* other thread has asked for resident_usage, and try_get of the unknown id
\* would be refused.
C21_Witness ==
    \E t, u \in Threads :
        /\ Returned(t, "try_get") /\ th[t].ret.kind = "Ok"
        /\ slabs[th[t].ret.val.slab_id + 1].bump_free_idx = SLAB_SIZE
        /\ Returned(u, "resident_usage")
        /\ TryGetNow(UnknownId).kind = "NotFound"

\* The ranges reserved in the slabs: those of the allocation records, and those
\* of the inserts that have written their points and not yet recorded them.
Reservations ==
    { [owner |-> <<"record", id>>, slab_id |-> allocs[id].slab_id,
       start |-> allocs[id].start, len |-> allocs[id].summary.len] : id \in DOMAIN allocs }
    \cup
    { [owner |-> <<"insert", t>>, slab_id |-> th[t].slab_id,
       start |-> th[t].start, len |-> Len(th[t].collection)] :
         t \in { u \in Threads : th[u].pc \in {"ins_alloc", "ins_record"} } }

\* The indices [start, start + len) of a reserved range
IndexRange(r) == { i \in 0..(SLAB_SIZE - 1) : r.start <= i /\ i < r.start + r.len }

\* C22: under every interleaving of the inserts, the index ranges of two
\* distinct allocation records of the same slab are disjoint, and so are the
\* ranges written by inserts that have not recorded their allocation yet.
C22_RangesDisjoint ==
    \A a, b \in Reservations :
        a.owner # b.owner /\ a.slab_id = b.slab_id =>
            IndexRange(a) \cap IndexRange(b) = {}

\* Two allocation records of non-empty ranges lie in the same slab, the second
\* directly behind the first.
C22_Witness ==
    \E a, b \in DOMAIN allocs :
        /\ a # b /\ allocs[a].slab_id = allocs[b].slab_id
        /\ allocs[a].summary.len > 0 /\ allocs[b].summary.len > 0
        /\ allocs[b].start = allocs[a].start + allocs[a].summary.len

\* C23: in every step each slab stays in the list with a bump index that does
\* not decrease and is at most SLAB_SIZE, and the points below the bump index
\* are left as they were.
C23_BumpMonotonic ==
    /\ [] (\A i \in 1..Len(slabs) : slabs[i].bump_free_idx \in 0..SLAB_SIZE)
    /\ [][ /\ Len(slabs') >= Len(slabs)
           /\ \A i \in 1..Len(slabs) :
                /\ slabs'[i].bump_free_idx >= slabs[i].bump_free_idx
                /\ \A k \in 1..slabs[i].bump_free_idx :
                     slabs'[i].points[k] = slabs[i].points[k] ]_vars

\* A slab has been filled to SLAB_SIZE by two inserts of points that differ
\* from zeroed memory.
C23_Witness ==
    \E i \in 1..Len(slabs) :
        /\ slabs[i].bump_free_idx = SLAB_SIZE
        /\ \E a, b \in DOMAIN allocs :
             /\ a # b /\ allocs[a].slab_id = i - 1 /\ allocs[b].slab_id = i - 1
             /\ allocs[a].summary.len > 0 /\ allocs[b].summary.len > 0
        /\ \A k \in 1..SLAB_SIZE : slabs[i].points[k] # ZeroPoint



\* C24: every allocation record names a slab of the list and a range inside
\* the part of that slab below its bump index, so try_get of a handle that
\* insert returned is Ok, never NotFound, also while other inserts are under
\* way.
C24_RecordsInBounds ==
    /\ \A id \in DOMAIN allocs :
         /\ allocs[id].slab_id < Len(slabs)
         /\ allocs[id].start + allocs[id].summary.len
               <= slabs[allocs[id].slab_id + 1].bump_free_idx
    /\ \A id \in ReturnedIds : TryGetNow(id).kind = "Ok"
    /\ \A t \in Threads :
         Returned(t, "try_get") /\ th[t].id \in ReturnedIds => th[t].ret.kind = "Ok"

\* try_get of a handle in the second slab has returned Ok while the other
\* thread is inside insert.
C24_Witness ==
    \E t, u \in Threads :
        /\ Returned(t, "try_get") /\ th[t].ret.kind = "Ok"
        /\ th[t].ret.val.slab_id = 1
        /\ u \in Inserting

\* A thread inside a call of the repository.
InCall(t) == th[t].pc \notin {"idle", "panicked"}

\* C25: the threads' calls never end in a deadlock and all complete: while a
\* thread is inside a call some thread inside a call can take its next step,
\* no call panics, and every call that was begun returns.
C25_AllComplete ==
    /\ [] ((\E t \in Threads : InCall(t)) =>
             \E t \in Threads : InCall(t) /\ ENABLED Continue(t))
    /\ [] (\A t \in Threads : th[t].pc # "panicked")
    /\ \A t \in Threads : InCall(t) ~> (th[t].pc = "idle")

\* An insert waits with the writer bit of the slab list set for a reader to
\* leave, and the reader waits for nothing.
C25_Witness ==
    \E t, u \in Threads :
        /\ th[t].pc = "ins_push" /\ ~ ENABLED Continue(t)
        /\ th[u].pc \in {"get_read", "get_bump", "ru_sum", "ru_usage"}
        /\ ENABLED Continue(u)
        /\ Len(slabs) > 0

\* The slab an insert is about to write its points into: the slab whose mutex
\* it holds if the collection fits there, a slab of its own after a scan that
\* found no room.
Target(u) ==
    IF th[u].pc = "ins_bump"
    THEN IF TryBumpWrite(slabs[th[u].slab_id + 1], th[u].collection).res.some
         THEN Some(th[u].slab_id) ELSE NoneV
    ELSE IF th[u].pc = "ins_new" THEN Some(Len(slabs))
    ELSE NoneV

\* The room left in that slab once the insert has written into it.
RoomLeftBy(u) ==
    SLAB_SIZE - Len(th[u].collection)
      - (IF th[u].pc = "ins_bump" THEN slabs[th[u].slab_id + 1].bump_free_idx ELSE 0)

\* C26: an insert does not wait for a lock held by an insert that writes into
\* another slab: while insert u is about to write into its slab, an insert t
\* whose collection has no room in that slab, and so goes to another one, can
\* take the upgradable read of the slab list.
C26_DifferentSlabsNoWait ==
    \A t, u \in Threads :
        ( /\ t # u
          /\ th[t].pc = "ins_lock"
          /\ Target(u).some
          /\ Len(th[u].collection) > 0
          /\ Len(th[t].collection) > RoomLeftBy(u) )
        => ENABLED InsertLock(t)

\* C27: a try_get that reads a range below the bump index of a slab does not
\* make an insert wait that has come to that slab in its scan and has room
\* in it: the insert can lock the slab's bump index.
C27_ReadNeverBlocksWriter ==
    \A r, w \in Threads :
        ( /\ th[r].pc = "get_bump"
          /\ th[r].len > 0
          /\ Len(th[w].collection) > 0
          /\ th[r].start + th[r].len <= slabs[th[r].slab_id + 1].bump_free_idx
          /\ th[w].pc = "ins_scan"
          /\ th[w].idx < Len(slabs)
          /\ ScanOrder(Len(slabs), th[w].idx) = th[r].slab_id
          /\ TryBumpWrite(slabs[th[r].slab_id + 1], th[w].collection).res.some )
        => ENABLED InsertScan(w)

\* The slab has room for the collection.
HasRoom(slab, collection) == slab.bump_free_idx + Len(collection) <= SLAB_SIZE

\* C28: the step of insert that reserves the range takes the lowest-indexed
\* slab of the list that has room for the collection, at its bump index, and
\* leaves the number of slabs as it is; the step that appends a slab is taken
\* only when no slab of the list has room, appends exactly one slab and puts
\* the collection at its offset 0; the allocation record names that slab and
\* offset; no other step changes the number of slabs.
C28_LowestSlabWithRoom ==
    [][\A t \in Threads :
          /\ (th[t].pc = "ins_bump" /\ th'[t].pc = "ins_alloc") =>
                /\ Len(slabs') = Len(slabs)
                /\ th'[t].slab_id < Len(slabs)
                /\ HasRoom(slabs[th'[t].slab_id + 1], th[t].collection)
                /\ \A j \in 1..th'[t].slab_id : ~ HasRoom(slabs[j], th[t].collection)
                /\ th'[t].start = slabs[th'[t].slab_id + 1].bump_free_idx
          /\ (th[t].pc = "ins_push" /\ th'[t].pc = "ins_alloc") =>
                /\ Len(slabs') = Len(slabs) + 1
                /\ \A j \in 1..Len(slabs) : ~ HasRoom(slabs[j], th[t].collection)
                /\ th'[t].slab_id = Len(slabs)
                /\ th'[t].start = 0
          /\ (th[t].pc = "ins_record" /\ th'[t].pc = "idle") =>
                /\ allocs'[th'[t].ret.val.id].slab_id = th[t].slab_id
                /\ allocs'[th'[t].ret.val.id].start = th[t].start
          /\ (\A u \in Threads : th[u].pc # "ins_push") => Len(slabs') = Len(slabs)
      ]_vars

\* With two inserts recorded, one in each of two slabs, a third insert has
\* reserved its range in the first slab, behind the collection that is there,
\* although the second slab has room for it too.
C28_Witness ==
    \E t \in Threads :
        /\ th[t].pc = "ins_alloc" /\ th[t].slab_id = 0 /\ th[t].start > 0
        /\ Len(th[t].collection) > 0
        /\ Len(slabs) = 2 /\ HasRoom(slabs[2], th[t].collection)
        /\ \E a, b \in DOMAIN allocs : allocs[a].slab_id = 0 /\ allocs[b].slab_id = 1

-----------------------------------------------------------------------------
(* Properties of the stroke collection: failing and successful commands    *)

\* The ids of the strokes in the collection.
StrokeIdsIn == { strokes[i].id : i \in DOMAIN strokes }

\* C29: apply fails with UnknownResource when the target is not in the
\* collection, and with MismatchedState when the command's brush or point
\* collection differs from the stored stroke's, whatever the activity flag;
\* a failing apply leaves the strokes and every activity flag as they were.
C29_ApplyFailures ==
    [][ApplyStep =>
          /\ strokeRes'.target \notin StrokeIdsIn => strokeRes'.kind = "UnknownResource"
          /\ ( /\ strokeRes'.target \in StrokeIdsIn
               /\ \/ StrokeOf(strokeRes'.target).brush # strokeRes'.brush
                  \/ StrokeOf(strokeRes'.target).point_collection # strokeRes'.points )
             => strokeRes'.kind = "MismatchedState"
          /\ strokeRes'.kind \in {"Ok", "UnknownResource", "MismatchedState"}
          /\ strokeRes'.kind # "Ok" =>
                /\ strokes' = strokes
                /\ strokes_active' = strokes_active
      ]_vars

\* An Undo with the wrong brush was refused on an active stroke, which an Undo
\* with the stroke's own brush would have deactivated; another stroke of the
\* collection is inactive.
C29_Witness ==
    /\ strokeRes.op = "apply" /\ strokeRes.dir = "Undo"
    /\ strokeRes.kind = "MismatchedState"
    /\ strokeRes.target \in StrokeIdsIn
    /\ strokes_active[GetMut(strokeRes.target).val]
    /\ StrokeOf(strokeRes.target).brush # strokeRes.brush
    /\ StrokeOf(strokeRes.target).point_collection = strokeRes.points
    /\ \E i \in DOMAIN strokes : ~ strokes_active[i]

\* C30: a successful apply changes the activity flag of the targeted stroke
\* and nothing else: the strokes, their number, order, ids, brushes and point
\* collections, and the flags of all other strokes are as before.
C30_ApplyFrame ==
    [][(ApplyStep /\ strokeRes'.kind = "Ok") =>
          /\ strokes' = strokes
          /\ Len(strokes_active') = Len(strokes_active)
          /\ \A i \in DOMAIN strokes :
                IF strokes[i].id = strokeRes'.target
                THEN strokes_active'[i] # strokes_active[i]
                ELSE strokes_active'[i] = strokes_active[i]
      ]_vars

\* An Undo succeeded on the first of two strokes and the second is active.
C30_Witness ==
    /\ strokeRes.op = "apply" /\ strokeRes.dir = "Undo" /\ strokeRes.kind = "Ok"
    /\ Len(strokes) = 2
    /\ strokes[1].id = strokeRes.target
    /\ ~ strokes_active[1] /\ strokes_active[2]

-----------------------------------------------------------------------------
(* Properties of the change tracker: the result as a set                   *)

\* The entries of a batch in the opposite order.
Reversed(changes) == [i \in DOMAIN changes |-> changes[Len(changes) + 1 - i]]

\* C31: dirtied_by leaves the graph as it was, and its result depends only on
\* the set of changed ids: the batch reordered and the batch with its entries
\* duplicated give the same set, and the result of two concatenated batches is
\* the union of the results of the two.
C31_DirtiedByOfSet ==
    /\ [](graphRes.op = "dirtied_by" =>
            /\ DirtiedBy(tree, Reversed(graphRes.args)) = graphRes.val
            /\ DirtiedBy(tree, graphRes.args \o graphRes.args) = graphRes.val
            /\ \A n \in 0..Len(graphRes.args) :
                    graphRes.val =
                        DirtiedBy(tree, SubSeq(graphRes.args, 1, n))
                        \cup DirtiedBy(tree, SubSeq(graphRes.args, n + 1, Len(graphRes.args))))
    /\ [][graphRes'.op = "dirtied_by" => tree' = tree]_vars

\* A batch of two changes in different groups: neither result holds the other.
C31_Witness ==
    /\ graphRes.op = "dirtied_by"
    /\ Len(graphRes.args) = 2
    /\ KnownChange(graphRes.args[1]) /\ KnownChange(graphRes.args[2])
    /\ LET first  == DirtiedBy(tree, <<graphRes.args[1]>>)
           second == DirtiedBy(tree, <<graphRes.args[2]>>)
       IN  /\ first \ second # {} /\ second \ first # {}
           /\ Cardinality(first) = 2
           /\ graphRes.val = first \cup second

\* The changed id and its ancestors below the root, each under the id type of
\* its node, with the ancestors found through the children lists.
SelfAndAncestors(tr, change) ==
    {ChangeAnyId(change)}
        \cup { AnyID(tr[a].ty.tag, a) : a \in Ancestors(tr, change.raw) \ {RootId} }

\* C32: the result of dirtied_by is exactly the union, over the changes whose id
\* the graph knows, of the changed id and its ancestors below the root:
\* Passthrough ancestors are in it, siblings and descendants of a changed id
\* are not (unless changed or ancestors themselves).
C32_DirtiedExactly ==
    graphRes.op = "dirtied_by" =>
        graphRes.val =
            UNION { SelfAndAncestors(tree, graphRes.args[i]) :
                        i \in { j \in DOMAIN graphRes.args : KnownChange(graphRes.args[j]) } }

\* The blend of a group changed that lies in a Passthrough group and holds a
\* leaf: the group and the Passthrough group are dirtied, the leaf is not.
C32_Witness ==
    /\ graphRes.op = "dirtied_by"
    /\ Len(graphRes.args) = 1
    /\ LET change == graphRes.args[1]
       IN  /\ change.kind = "BlendChanged"
           /\ KnownChange(change)
           /\ tree[change.raw].ty.tag = "Node"
           /\ change.tag = "Node"
           /\ tree[change.raw].parent # RootId
           /\ tree[tree[change.raw].parent].ty.ty = "Passthrough"
           /\ Descendants(tree, change.raw) # {}
           /\ graphRes.val = {AnyID("Node", change.raw),
                              AnyID("Node", tree[change.raw].parent)}

-----------------------------------------------------------------------------
(* Properties of the stroke collection: the enumeration of active strokes  *)

\* The indices of the strokes whose activity flag is set.
ActiveIndices == { i \in DOMAIN strokes : i \in DOMAIN strokes_active /\ strokes_active[i] }

\* C33: iter_active yields exactly the strokes whose activity flag is set, each
\* once and in stored order, and no soft-deleted stroke; stroke ids being
\* unique, a stroke is yielded if and only if get of its id returns it.
C33_IterActive ==
    strokeRes.op = "iter_active" =>
        LET yielded == strokeRes.yielded
        IN  /\ Len(yielded) = Cardinality(ActiveIndices)
            /\ \E at \in [DOMAIN yielded -> DOMAIN strokes] :
                    /\ \A k \in DOMAIN yielded :
                            at[k] \in ActiveIndices /\ yielded[k] = strokes[at[k]]
                    /\ \A k, l \in DOMAIN yielded : k < l => at[k] < at[l]
            /\ \A i \in DOMAIN strokes, j \in DOMAIN strokes :
                    strokes[i].id = strokes[j].id => i = j
            /\ \A id \in StrokeIds :
                    /\ Get(id).some <=> \E k \in DOMAIN yielded : yielded[k].id = id
                    /\ \A k \in DOMAIN yielded :
                            yielded[k].id = id => Get(id) = Some(yielded[k])

\* Two strokes, the first undone: iter_active yields the second alone.
C33_Witness ==
    /\ strokeRes.op = "iter_active"
    /\ Len(strokes) = 2
    /\ ~ strokes_active[1] /\ strokes_active[2]
    /\ strokeRes.yielded = <<strokes[2]>>

-----------------------------------------------------------------------------
(* Properties of the render cache orchestrator: delivery, cache entries    *)

\* The step receives a notification: recv or try_recv gives Ok(msg).
Receives == worker.pc \in {"recv", "drain"} /\ TryRecv(chan).kind = "Ok" /\ worker' # worker

\* Every id of the batch was given to render_one.
BatchRendered(changed, history) ==
    \A k \in DOMAIN changed : \E j \in DOMAIN history : history[j].id = changed[k]

\* C34: every notification the worker receives puts its document into the
\* batch of that wake-up, and the worker leaves the render of a batch only
\* after a render_one pass for every document of the batch.
C34_AtLeastOnce ==
    /\ [][Receives => /\ worker'.changed # <<>>
                      /\ worker'.changed[Len(worker'.changed)] = TryRecv(chan).id
                      /\ \A k \in DOMAIN worker.changed :
                            worker.pc = "drain" => worker'.changed[k] = worker.changed[k]
                      /\ worker'.pc = "drain"]_vars
    /\ [][( worker.pc = "drain" /\ worker'.pc # "drain" )
            => worker'.pc = "render" /\ worker'.changed = worker.changed]_vars
    /\ [][( worker.pc = "render" /\ worker.ctx = "msg" /\ worker'.pc # "render" )
            => BatchRendered(worker.changed,
                             IF RenderOneStep THEN passes' ELSE passes)]_vars

\* The cache map of a document, empty for a document that is not tracked.
CacheOf(map, id) == IF id \in DOMAIN map THEN map[id].graph_render_data ELSE <<>>

\* C35: reconciliation never replaces the image of an id that has a cache
\* entry and still requires one: over every allocate_prune_graph pass, failed
\* ones included, such an entry stays bound to its image, and images are
\* created only for ids that had no entry; between the passes no entry of a
\* tracked document changes its image.
C35_EntriesKeepImages ==
    /\ [][( RenderOneStep /\ passes'[Len(passes')].alloc # "-" )
          => LET id     == passes'[Len(passes')].id
                 before == CacheOf(rendererData, id)
                 after  == CacheOf(rendererData', id)
             IN  /\ \A k \in (DOMAIN before) \cap RequiresImage(docGraph[id]) :
                        k \in DOMAIN after /\ after[k] = before[k]
                 /\ \A k \in (DOMAIN after) \ DOMAIN before :
                        /\ k \in RequiresImage(docGraph[id])
                        /\ after[k] >= nextImage /\ after[k] < nextImage'
                 /\ \A k \in (DOMAIN after) \cap DOMAIN before : after[k] = before[k]]_vars
    /\ [][\A id \in (DOMAIN rendererData) \cap DOMAIN rendererData' :
            \A k \in (DOMAIN CacheOf(rendererData, id)) \cap DOMAIN CacheOf(rendererData', id) :
                CacheOf(rendererData', id)[k] = CacheOf(rendererData, id)[k]]_vars

\* A pass on a document that had an entry for a leaf still in the graph: the
\* entry kept its image, and an image was created for another id.
C35_Witness ==
    /\ passes # <<>>
    /\ LastPass.alloc \in {"Ok", "Err"}
    /\ ~ LastPass.is_new
    /\ LET cache == CacheOf(rendererData, LastPass.id)
       IN  /\ LastPass.keys_before \cap RequiresImage(docGraph[LastPass.id]) # {}
           /\ (DOMAIN cache) \ LastPass.keys_before # {}
           /\ \E k \in LastPass.keys_before \cap DOMAIN cache, new \in (DOMAIN cache) \ LastPass.keys_before :
                 cache[k] < cache[new]

\* The render_one calls of the current render call for the same document, one
\* directly after the other.
NextPassOf(j, k) ==
    /\ j < k
    /\ passes[j].id = passes[k].id
    /\ \A l \in DOMAIN passes : j < l /\ l < k => passes[l].id # passes[j].id

\* The first full redraw of a newly tracked document failed.
FirstRedrawFailed(pass) ==
    pass.is_new /\ pass.path = "scratch" /\ pass.result = "Err"

\* C36: when the first full redraw of a newly tracked document fails, the
\* document stays in the tracked map, and its next render_one does not take
\* it as new: it attempts the incremental redraw.
C36_FailedFirstDrawStaysTracked ==
    /\ [][( RenderOneStep /\ FirstRedrawFailed(passes'[Len(passes')]) )
          => /\ passes'[Len(passes')].id \in DOMAIN rendererData'
             /\ passes'[Len(passes')].id \notin DOMAIN rendererData]_vars
    /\ [](\A j, k \in DOMAIN passes :
            NextPassOf(j, k) /\ FirstRedrawFailed(passes[j])
                => /\ ~ passes[k].is_new
                   /\ passes[k].fwd = "Ok" => passes[k].path = "incremental")

\* Two notifications of an untracked document in one batch: the first
\* render_one fails in the reconciliation, the second draws incrementally.
C36_Witness ==
    /\ Len(passes) >= 2
    /\ NextPassOf(1, 2)
    /\ FirstRedrawFailed(passes[1]) /\ passes[1].alloc = "Err"
    /\ ~ passes[2].is_new /\ passes[2].path = "incremental"

-----------------------------------------------------------------------------
(* PointArchetype::len and len_bytes on every archetype                    *)

\* The values of PointArchetype: every u8 is a union of its eight flags
Archetypes == 0..255

\* A call of PointArchetype::len, its result recorded
LenCall(bits) ==
    /\ archRes' = [op |-> "len", bits |-> bits, val |-> ArchetypeLen(bits)]
    /\ UNCHANGED <<repoVars, graphVars, strokeVars, renderVars, hotkeyVars, gizmoVars>>

\* A call of PointArchetype::len_bytes, its result recorded
LenBytesCall(bits) ==
    /\ archRes' = [op |-> "len_bytes", bits |-> bits, val |-> ArchetypeLenBytes(bits)]
    /\ UNCHANGED <<repoVars, graphVars, strokeVars, renderVars, hotkeyVars, gizmoVars>>

InitArchetype ==
    /\ ArchetypeIdle
    /\ RepoIdle /\ GraphIdle /\ StrokeIdle /\ RenderIdle /\ HotkeyIdle /\ GizmoIdle

ArchetypeNext ==
    \/ \E bits \in Archetypes : LenCall(bits)
    \/ \E bits \in Archetypes : LenBytesCall(bits)

SpecArchetype == InitArchetype /\ [][ArchetypeNext]_vars

\* The channels (bit positions) an archetype names.
ChannelsOf(bits) == { k \in 0..7 : (bits \div (2 ^ k)) % 2 = 1 }

\* The channels of POSITION and TILT, which hold two elements each.
TwoElementChannels == { k \in 0..7 : 2 ^ k \in {POSITION, TILT} }

\* C37: len counts one element for every channel bit that is set and one more
\* for each of POSITION and TILT that is set, for each of the 256 archetypes;
\* len_bytes is four times len.
C37_ArchetypeLen ==
    LET elements == Cardinality(ChannelsOf(archRes.bits))
                    + Cardinality(ChannelsOf(archRes.bits) \cap TwoElementChannels)
    IN  /\ archRes.op = "len" => archRes.val = elements
        /\ archRes.op = "len_bytes" => archRes.val = 4 * elements

\* Position, pressure and tilt: five elements.
C37_Witness ==
    /\ archRes.op = "len"
    /\ archRes.bits = POSITION + PRESSURE + TILT
    /\ archRes.val = 5

-----------------------------------------------------------------------------
(* WinitKeyboardActionCollector: actions/winit_action_collector.rs.  The   *)
(* hotkeys and their `shadows` relation are defined by the key bindings.   *)

\* KeyboardHotkey { key, alt, shift, ctrl }
KeyboardHotkey(key, alt, shift, ctrl) ==
    [key |-> key, alt |-> alt, shift |-> shift, ctrl |-> ctrl]

\* The hotkeys of the key bindings
Hotkeys == { KeyboardHotkey("S", FALSE, FALSE, FALSE),
             KeyboardHotkey("S", FALSE, FALSE, TRUE),
             KeyboardHotkey("S", FALSE, TRUE, TRUE) }

\* The relations on the hotkeys that are irreflexive and asymmetric
ShadowRelations ==
    { rel \in SUBSET (Hotkeys \X Hotkeys) :
        \A a, b \in Hotkeys : <<a, b>> \in rel => <<b, a>> \notin rel }

\* KeyboardHotkey::shadows
Shadows(a, b) == <<a, b>> \in shadowing

\* Mutant of push_key: the hotkeys that shadow the new one are not counted.
ShadowsOnNew_Zero(hotkeys, new) == 0

\* shadows_on_new after the loop of push_key
ShadowsOnNew(hotkeys, new) ==
    Cardinality({ old_key \in DOMAIN hotkeys :
                    ~ Shadows(new, old_key) /\ Shadows(old_key, new) })

\* WinitKeyboardActionCollector::push_key
PushKey(new) ==
    /\ IF new \in DOMAIN current_hotkeys
       THEN UNCHANGED current_hotkeys
       ELSE LET shadowed == [old_key \in DOMAIN current_hotkeys |->
                                IF Shadows(new, old_key)
                                THEN current_hotkeys[old_key] + 1
                                ELSE current_hotkeys[old_key]]
                shadows_on_new == ShadowsOnNew(current_hotkeys, new)
            IN  current_hotkeys' = MapInsert(shadowed, new, shadows_on_new)
    /\ hotkeyRes' = [op |-> "push_key", key |-> new, underflow |-> FALSE]
    /\ UNCHANGED shadowing
    /\ UNCHANGED <<repoVars, graphVars, strokeVars, renderVars, archVars, gizmoVars>>

\* usize::checked_sub(1).unwrap_or_else(|| { warn; 0 })
CheckedSub(shadows) == IF shadows = 0 THEN 0 ELSE shadows - 1

\* WinitKeyboardActionCollector::pop_key
PopKey(remove) ==
    /\ IF remove \notin DOMAIN current_hotkeys
       THEN /\ UNCHANGED current_hotkeys
            /\ hotkeyRes' = [op |-> "pop_key", key |-> remove, underflow |-> FALSE]
       ELSE LET removed == MapRemove(current_hotkeys, remove)
            IN  /\ current_hotkeys' =
                        [old_key \in DOMAIN removed |->
                            IF Shadows(remove, old_key)
                            THEN CheckedSub(removed[old_key])
                            ELSE removed[old_key]]
                /\ hotkeyRes' =
                        [op |-> "pop_key", key |-> remove,
                         underflow |-> \E old_key \in DOMAIN removed :
                                            Shadows(remove, old_key) /\ removed[old_key] = 0]
    /\ UNCHANGED shadowing
    /\ UNCHANGED <<repoVars, graphVars, strokeVars, renderVars, archVars, gizmoVars>>

InitHotkeys ==
    /\ current_hotkeys = <<>>
    /\ shadowing \in ShadowRelations
    /\ hotkeyRes = NoHotkeyCall
    /\ RepoIdle /\ GraphIdle /\ StrokeIdle /\ RenderIdle /\ ArchetypeIdle /\ GizmoIdle

HotkeysNext ==
    \/ \E new \in Hotkeys : PushKey(new)
    \/ \E remove \in Hotkeys : PopKey(remove)

SpecHotkeys == InitHotkeys /\ [][HotkeysNext]_vars

\* The held hotkeys other than `key` that shadow it.
HeldShadowing(key) ==
    { other \in (DOMAIN current_hotkeys) \ {key} : Shadows(other, key) }

\* C38: with an irreflexive and asymmetric `shadows`, after any sequence of
\* push_key and pop_key calls every entry of current_hotkeys maps a held hotkey
\* to the number of other held hotkeys that shadow it, and pop_key never
\* takes its "unshadowed too many times" branch.
C38_ShadowCounts ==
    /\ \A key \in DOMAIN current_hotkeys :
            current_hotkeys[key] = Cardinality(HeldShadowing(key))
    /\ ~ hotkeyRes.underflow

\* A hotkey shadowed by the two others, one of which was just released.
C38_Witness ==
    /\ hotkeyRes.op = "pop_key"
    /\ hotkeyRes.key \notin DOMAIN current_hotkeys
    /\ \E key \in DOMAIN current_hotkeys :
            /\ Shadows(hotkeyRes.key, key)
            /\ current_hotkeys[key] = 1
            /\ Cardinality(DOMAIN current_hotkeys) = 2

-----------------------------------------------------------------------------
(* Gizmos: gizmos.rs.  A reference to a gizmo or a collection is its       *)
(* location `at`: the positions (from 1) of the children leading to it     *)
(* from the root collection.  The indices of a CollectionMeta are Rust's,  *)
(* from 0.                                                                 *)

\* GizmoShape::Rectangle, GizmoShape::Ring, GizmoShape::None
Rectangle(min, max) == [shape |-> "Rectangle", min |-> min, max |-> max]
Ring(inner, outer) == [shape |-> "Ring", inner |-> inner, outer |-> outer]
NoShape == [shape |-> "None"]

\* GizmoShape::hit
GizmoShapeHit(self, local) ==
    CASE self.shape = "None" -> FALSE
      [] self.shape = "Rectangle" ->
            /\ (local[1] > self.min[1] /\ local[1] < self.max[1])
            /\ (local[2] > self.min[2] /\ local[2] < self.max[2])
      [] self.shape = "Ring" ->
            LET dist_sq == local[1] * local[1] + local[2] * local[2]
            IN  dist_sq > self.inner * self.inner /\ dist_sq < self.outer * self.outer

\* AnyGizmo::Gizmo and AnyGizmo::Collection
Gizmo(hit_shape) == [kind |-> "Gizmo", hit_shape |-> hit_shape]
GizmoCollection(children) == [kind |-> "Collection", children |-> children]

\* The gizmos pushed to collections
Gizmos == { Gizmo(Rectangle(<<0, 0>>, <<2, 2>>)), Gizmo(Ring(2, 4)) }

\* The gizmos and the collections, nested up to `nesting` deep, pushed to
\* a collection
RECURSIVE AnyGizmos(_)
AnyGizmos(nesting) ==
    Gizmos \cup
        (IF nesting = 0 THEN {}
         ELSE { GizmoCollection(children) :
                    children \in UNION { [1..n -> AnyGizmos(nesting - 1)] : n \in ChildCounts } })

\* What push_top and push_bottom are called with
Pushed == AnyGizmos(MaxNesting)

\* Collection::push_top
PushTop(other) ==
    /\ Len(root.children) + 1 \in ChildCounts
    /\ root' = [root EXCEPT !.children = <<other>> \o @]
    /\ gizmoRes' = NoGizmoCall
    /\ UNCHANGED <<repoVars, graphVars, strokeVars, renderVars, archVars, hotkeyVars>>

\* Collection::push_bottom
PushBottom(other) ==
    /\ Len(root.children) + 1 \in ChildCounts
    /\ root' = [root EXCEPT !.children = Append(@, other)]
    /\ gizmoRes' = NoGizmoCall
    /\ UNCHANGED <<repoVars, graphVars, strokeVars, renderVars, archVars, hotkeyVars>>

\* A GizmoVisitor<usize>: it notes every callback made to it and answers
\* Some(n) at its n-th callback when n = stop_at, None otherwise.
LogVisitor(stop_at) ==
    [kind |-> "Log", log |-> <<>>, stop_at |-> stop_at,
     path |-> <<>>, points_stack |-> <<>>]

\* visit_gizmo, visit_collection, end_collection of the visitor above
LogCallback(visitor, cb, at) ==
    LET log == Append(visitor.log, [cb |-> cb, at |-> at])
    IN  [visitor |-> [visitor EXCEPT !.log = log],
         result  |-> IF Len(log) = visitor.stop_at THEN Some(Len(log)) ELSE NoneV]

\* ClickVisitor { path: smallvec![0], points_stack: vec![point] }
ClickVisitor(point) ==
    [kind |-> "Click", log |-> <<>>, stop_at |-> 0,
     path |-> <<0>>, points_stack |-> <<point>>]

\* *self.path.last_mut().unwrap() += 1
AdvanceLast(path) == [path EXCEPT ![Len(path)] = @ + 1]

\* Vec::pop
PopLast(stack) == SubSeq(stack, 1, Len(stack) - 1)

\* ClickVisitor::visit_collection_mut
ClickVisitCollectionMut(visitor) ==
    LET xformed == visitor.points_stack[Len(visitor.points_stack)]
    IN  [visitor |-> [visitor EXCEPT !.path = Append(AdvanceLast(@), 0),
                                     !.points_stack = Append(@, xformed)],
         result  |-> NoneV]

\* Gizmo::click_at
GizmoClickAt(gizmo, point) ==
    IF GizmoShapeHit(gizmo.hit_shape, point) THEN Some([offset |-> point]) ELSE NoneV

\* ClickVisitor::visit_gizmo_mut
ClickVisitGizmoMut(visitor, gizmo) ==
    LET xformed == visitor.points_stack[Len(visitor.points_stack)]
        clicked == GizmoClickAt(gizmo, xformed)
    IN  IF clicked.some
        THEN [visitor |-> [visitor EXCEPT !.path = <<>>],
              result  |-> Some([path |-> visitor.path, meta |-> clicked.val])]
        ELSE [visitor |-> [visitor EXCEPT !.path = AdvanceLast(@)],
              result  |-> NoneV]

\* ClickVisitor::end_collection_mut
ClickEndCollectionMut(visitor) ==
    [visitor |-> [visitor EXCEPT !.path = PopLast(@), !.points_stack = PopLast(@)],
     result  |-> NoneV]

\* visitor.visit_gizmo(gizmo) / visitor.visit_gizmo_mut(gizmo)
VisitGizmo(visitor, gizmo, at) ==
    IF visitor.kind = "Click" THEN ClickVisitGizmoMut(visitor, gizmo)
    ELSE LogCallback(visitor, "visit_gizmo", at)

\* visitor.visit_collection(self) / visitor.visit_collection_mut(self)
VisitCollection(visitor, collection, at) ==
    IF visitor.kind = "Click" THEN ClickVisitCollectionMut(visitor)
    ELSE LogCallback(visitor, "visit_collection", at)

\* visitor.end_collection(self) / visitor.end_collection_mut(self)
EndCollection(visitor, collection, at) ==
    IF visitor.kind = "Click" THEN ClickEndCollectionMut(visitor)
    ELSE LogCallback(visitor, "end_collection", at)

\* self.children.iter() and self.children.iter().rev(), as positions
ChildOrder(children, rev) ==
    IF rev THEN [i \in DOMAIN children |-> Len(children) + 1 - i]
    ELSE [i \in DOMAIN children |-> i]

\* The body that visit_hit, visit_painter and their _mut forms share; `rev`
\* is the .rev() of the painter's loop.  A gizmo hands itself to the visitor.
RECURSIVE Walk(_, _, _, _), WalkChildren(_, _, _, _, _)
Walk(self, at, visitor, rev) ==
    IF self.kind = "Gizmo" THEN VisitGizmo(visitor, self, at)
    ELSE LET entered == VisitCollection(visitor, self, at)
         IN  IF entered.result.some THEN entered
             ELSE LET walked == WalkChildren(self, at, ChildOrder(self.children, rev),
                                             entered.visitor, rev)
                  IN  IF walked.result.some THEN walked
                      ELSE EndCollection(walked.visitor, self, at)

\* for child in <order> { if let Some(t) = child.visit(visitor) { return Some(t) } }
WalkChildren(self, at, order, visitor, rev) ==
    IF order = <<>> THEN [visitor |-> visitor, result |-> NoneV]
    ELSE LET child == Walk(self.children[Head(order)], Append(at, Head(order)), visitor, rev)
         IN  IF child.result.some THEN child
             ELSE WalkChildren(self, at, Tail(order), child.visitor, rev)

\* Collection::visit_hit, Collection::visit_hit_mut
VisitHit(self, visitor) == Walk(self, <<>>, visitor, FALSE)

\* Mutant of visit_painter: the children are not reversed.
VisitPainter_Forward(self, visitor) == Walk(self, <<>>, visitor, FALSE)

\* Collection::visit_painter
VisitPainter(self, visitor) == Walk(self, <<>>, visitor, TRUE)

\* Collection::click_at
ClickAt(self, point) == VisitHit(self, ClickVisitor(point)).result

\* The loop of evaluate_path: `cur` is the slice of children to index next,
\* `found` the gizmo reached.
RECURSIVE EvaluatePathFrom(_, _, _)
EvaluatePathFrom(path, cur, found) ==
    IF path = <<>> THEN found
    ELSE IF ~ cur.some THEN NoneV
    ELSE LET idx == Head(path)
             last_cur == cur.val
         IN  IF idx + 1 \notin DOMAIN last_cur.children THEN NoneV
             ELSE LET child == last_cur.children[idx + 1]
                      at == Append(last_cur.at, idx + 1)
                  IN  IF child.kind = "Collection"
                      THEN EvaluatePathFrom(Tail(path),
                                Some([children |-> child.children, at |-> at]), found)
                      ELSE EvaluatePathFrom(Tail(path), NoneV, Some(at))

\* Collection::evaluate_path, Collection::evaluate_path_mut
EvaluatePath(self, path) ==
    EvaluatePathFrom(path.path, Some([children |-> self.children, at |-> <<>>]), NoneV)

\* The locations of the collection or gizmo `self` at `at` and of all below it
RECURSIVE GizmoLocations(_, _)
GizmoLocations(self, at) ==
    {at} \cup
        (IF self.kind = "Collection"
         THEN UNION { GizmoLocations(self.children[i], Append(at, i)) : i \in DOMAIN self.children }
         ELSE {})

\* The collection or gizmo at a location
RECURSIVE GizmoAt(_, _)
GizmoAt(self, at) ==
    IF at = <<>> THEN self ELSE GizmoAt(self.children[Head(at)], Tail(at))

\* The callbacks a visitor that never answers Some receives
AllCallbacks(self) ==
    UNION { IF GizmoAt(self, at).kind = "Gizmo"
            THEN { [cb |-> "visit_gizmo", at |-> at] }
            ELSE { [cb |-> "visit_collection", at |-> at],
                   [cb |-> "end_collection", at |-> at] } : at \in GizmoLocations(self, <<>>) }

\* No call was made on the collection since it was built.  The calls below
\* leave the collection as it is, so a call made after another one finds what
\* a first call finds; each is followed as the first call.
Built == gizmoRes = NoGizmoCall

\* A visit with a logging visitor that answers Some at its stop_at-th callback
\* (0: never)
VisitHitCall(stop_at) ==
    /\ Built
    /\ LET visited == VisitHit(root, LogVisitor(stop_at))
       IN  gizmoRes' = [NoGizmoCall EXCEPT !.op = "visit_hit", !.stop_at = stop_at,
                                            !.log = visited.visitor.log,
                                            !.result = visited.result]
    /\ UNCHANGED root
    /\ UNCHANGED <<repoVars, graphVars, strokeVars, renderVars, archVars, hotkeyVars>>

VisitPainterCall(stop_at) ==
    /\ Built
    /\ LET visited == VisitPainter(root, LogVisitor(stop_at))
       IN  gizmoRes' = [NoGizmoCall EXCEPT !.op = "visit_painter", !.stop_at = stop_at,
                                            !.log = visited.visitor.log,
                                            !.result = visited.result]
    /\ UNCHANGED root
    /\ UNCHANGED <<repoVars, graphVars, strokeVars, renderVars, archVars, hotkeyVars>>

\* Collection::click_at
ClickAtCall(point) ==
    /\ Built
    /\ gizmoRes' = [NoGizmoCall EXCEPT !.op = "click_at", !.point = point,
                                        !.result = ClickAt(root, point)]
    /\ UNCHANGED root
    /\ UNCHANGED <<repoVars, graphVars, strokeVars, renderVars, archVars, hotkeyVars>>

\* Collection::grabbed_cursor with the CollectionMeta click_at returned: the
\* gizmo evaluate_path finds for it
GrabbedCursorCall ==
    /\ gizmoRes.op = "click_at" /\ gizmoRes.result.some
    /\ gizmoRes' = [gizmoRes EXCEPT !.op = "evaluate_path",
                                    !.found = EvaluatePath(root, gizmoRes.result.val)]
    /\ UNCHANGED root
    /\ UNCHANGED <<repoVars, graphVars, strokeVars, renderVars, archVars, hotkeyVars>>

InitGizmos ==
    /\ root = GizmoCollection(<<>>)
    /\ gizmoRes = NoGizmoCall
    /\ RepoIdle /\ GraphIdle /\ StrokeIdle /\ RenderIdle /\ ArchetypeIdle /\ HotkeyIdle

GizmosNext ==
    \/ \E other \in Pushed : PushTop(other)
    \/ \E other \in Pushed : PushBottom(other)
    \/ \E stop_at \in 0..Cardinality(AllCallbacks(root)) : VisitHitCall(stop_at)
    \/ \E stop_at \in 0..Cardinality(AllCallbacks(root)) : VisitPainterCall(stop_at)
    \/ \E point \in ClickPoints : ClickAtCall(point)
    \/ GrabbedCursorCall

SpecGizmos == InitGizmos /\ [][GizmosNext]_vars

\* The order of two callbacks of one walk: a collection is entered before and
\* ended after everything in it; otherwise the children of the collection
\* where the two locations part decide, in stored order or, for `rev`, in
\* the reverse of it.
Precedes(first, second, rev) ==
    LET a == first.at
        b == second.at
        common == { n \in 0..Len(a) : n <= Len(b) /\ SubSeq(a, 1, n) = SubSeq(b, 1, n) }
        k == 1 + CHOOSE n \in common : \A other \in common : other <= n
    IN  IF a = b THEN first.cb = "visit_collection" /\ second.cb = "end_collection"
        ELSE IF k > Len(a) THEN first.cb = "visit_collection"
        ELSE IF k > Len(b) THEN second.cb = "end_collection"
        ELSE IF rev THEN a[k] > b[k] ELSE a[k] < b[k]

\* C39: visit_hit hands the visitor the collection, then its children in
\* stored order, each with all below it, then the end of the collection;
\* visit_painter does so with the children in reverse stored order.  The
\* callbacks made are exactly those up to the first that answers Some, whose
\* answer is the result; the result is None only when every callback was made
\* and none answered Some.
C39_WalkOrder ==
    gizmoRes.op \in {"visit_hit", "visit_painter"} =>
        LET rev == gizmoRes.op = "visit_painter"
            log == gizmoRes.log
            all == AllCallbacks(root)
            made == { log[i] : i \in DOMAIN log }
        IN  /\ made \subseteq all
            /\ \A i, j \in DOMAIN log : i < j => Precedes(log[i], log[j], rev)
            /\ \A later \in all \ made : \A i \in DOMAIN log : Precedes(log[i], later, rev)
            /\ IF gizmoRes.stop_at \in 1..Cardinality(all)
               THEN /\ Len(log) = gizmoRes.stop_at
                    /\ gizmoRes.result.some
                    /\ gizmoRes.result.val = gizmoRes.stop_at
               ELSE /\ Len(log) = Cardinality(all)
                    /\ ~ gizmoRes.result.some

\* A painter's walk over two children, the second a collection, stopped by the
\* visitor at a gizmo inside that collection before the first child was reached.
C39_Witness ==
    /\ gizmoRes.op = "visit_painter"
    /\ Len(root.children) = 2
    /\ root.children[2].kind = "Collection"
    /\ gizmoRes.result.some
    /\ gizmoRes.log[Len(gizmoRes.log)].cb = "visit_gizmo"
    /\ Len(gizmoRes.log[Len(gizmoRes.log)].at) = 2
    /\ \A i \in DOMAIN gizmoRes.log : gizmoRes.log[i].at # <<1>>

\* The gizmos that accept a click at `point`
HitLocations(self, point) ==
    { at \in GizmoLocations(self, <<>>) :
        /\ GizmoAt(self, at).kind = "Gizmo"
        /\ GizmoShapeHit(GizmoAt(self, at).hit_shape, point) }

\* The first of them front to back
FirstHit(self, point) ==
    CHOOSE at \in HitLocations(self, point) :
        \A other \in HitLocations(self, point) \ {at} :
            Precedes([cb |-> "visit_gizmo", at |-> at],
                     [cb |-> "visit_gizmo", at |-> other], FALSE)

\* C40: click_at returns a path whenever some gizmo accepts the click, and
\* evaluate_path on the same collection resolves that path to the first gizmo,
\* front to back, that accepts it.
C40_ClickPathResolves ==
    /\ (gizmoRes.op = "click_at" /\ HitLocations(root, gizmoRes.point) # {})
            => gizmoRes.result.some
    /\ gizmoRes.op = "evaluate_path" =>
            /\ gizmoRes.found.some
            /\ gizmoRes.found.val = FirstHit(root, gizmoRes.point)

=============================================================================
